---- MODULE Spec2Model ----
\* A model of the BitTorrent client core of lovedboy/torrent (src/client.go):
\* one Client holding one Torrent whose info is known.  Every action is one
\* critical section of the client lock cl.mu: a handler runs from the point it
\* takes the lock to the point it releases it (or returns).
EXTENDS Integers, FiniteSets, Sequences, TLC

\* ---------------------------------------------------------------- bounds
\* Length of the torrent and of one piece, counted in chunks.  The last piece
\* is shorter when TorrentChunks is not a multiple of PieceChunks.
TorrentChunks == 3
PieceChunks == 2
\* Cap on the expvar counter duplicateClientConns.
MaxDuplicates == 1
\* Inbound connections whose handshake can be in progress at the same time.
MaxIncoming == 2
\* Caps on the per-connection chunk counters.
MaxUseful == 2
MaxUnwanted == 1
MaxSent == 7
\* Per-torrent connection cap (scaled down), also the half-open limit.
socketsPerTorrent == 2
\* The tit-for-tat surplus of the upload pass.
uploadWindow == 6

NumPieces == (TorrentChunks + PieceChunks - 1) \div PieceChunks
Pieces == 0..(NumPieces - 1)
NumChunks(p) ==
  IF p = NumPieces - 1 THEN TorrentChunks - p * PieceChunks ELSE PieceChunks
Chunks(p) == 0..(NumChunks(p) - 1)
AllRequests == {r \in Pieces \X (0..(PieceChunks - 1)) : r[2] \in Chunks(r[1])}
\* A request of length 0 at the start of a chunk: <<piece, chunk, 0>>.
ZeroRequests == {<< r[1], r[2], 0 >> : r \in AllRequests}
zeroLength(r) == Len(r) = 3
\* Piece messages the torrent has no place for: a block that starts at a
\* chunk of the piece and runs past the end of the piece, <<piece, chunk,
\* "long">>, and a block of a piece index the torrent does not have.
LongPieces == {<< r[1], r[2], "long" >> : r \in AllRequests}
BadIndexPieces == {<< NumPieces, 0 >>}

\* Remote endpoints: two on the same IP and one on another.
Addrs == { [ip |-> "ip1", port |-> 1], [ip |-> "ip1", port |-> 2],
           [ip |-> "ip2", port |-> 1] }
\* A connection object is named by its remote address and by who opened it;
\* at most one object of a name is alive at a time.
Slots == Addrs \X {"in", "out"}
remoteAddr(c) == c[1]
\* The position of a connection among those of equal score.
Rank(c) ==
  2 * (c[1].port + (IF c[1].ip = "ip1" THEN 0 ELSE 2)) + (IF c[2] = "in" THEN 0 ELSE 1)
None == << >>
\* cl.peerID and the peer-ids remote clients present.
OwnPeerID == "me"
PeerIDs == {"me", "p1", "p2", "p3"}
Data == {"good", "bad"}

VARIABLES
  conns,        \* t.conns: the connection objects in the torrent's list
  conn,         \* the connection objects, by slot
  halfOpen,     \* t.halfOpen
  peers,        \* t.peers: candidate addresses not yet dialed
  dialing,      \* outgoingConnection goroutines in flight, per address
  incoming,     \* accepted connections whose handshake is in progress
  piece,        \* t.pieces: flags, pending writes, dirty chunks
  complete,     \* per-piece completion as storage reports it
  content,      \* what storage holds for every chunk
  verifier,     \* verifyPiece goroutines per piece, by position
  badPeerIPs,   \* cl.badPeerIPs
  dopplegangerAddrs,
  duplicateClientConns,
  clClosed,     \* cl.closed
  panicked,     \* the function whose panic() was reached, "" while none was
  hsk,          \* handshake: the frame of the call (ih, b, res, ok, err)
  postCh,       \* handshake: the post queue and whether it was closed
  writeDone,    \* handshake: the channel of the writer's final error
  writer,       \* handshakeWriter: the goroutine's position
  wrote,        \* the buffers handshakeWriter wrote to the socket
  dfr,          \* dialFirst: the frame of the call (left, res, conn, utp)
  resCh,        \* dialFirst: the channel of dial results
  dial,         \* doDial: the goroutine's position, per transport
  nc,           \* the net.Conn a dial produced, per transport
  torrents,     \* cl.torrents: the torrent of every info-hash
  mu,           \* cl.mu: the caller that holds it, "" when it is free
  call,         \* the public operation every caller is in, and where
  est,          \* establishOutgoingConn: the frame of the call
  rdt,          \* reducedDialTimeout: the arguments and result of the call
  md,           \* ut_metadata: the torrent's buffer and one connection
  acl           \* acceptConnections: the position of the loop, and its conn

hsVars == << hsk, postCh, writeDone, writer, wrote >>
dfVars == << dfr, resCh, dial, nc >>
apiVars == << torrents, mu, call >>
estVars == << est >>
tmVars == << rdt >>
mdVars == << md >>
acVars == << acl >>

vars == << conns, conn, halfOpen, peers, dialing, incoming, piece, complete,
           content, verifier, badPeerIPs, dopplegangerAddrs,
           duplicateClientConns, clClosed, panicked, hsVars, dfVars, apiVars, estVars, tmVars, mdVars, acVars >>

\* ------------------------------------------------------------ the bundle
\* Handlers are written as functions from the locked state to the locked
\* state, so that a handler can call another the way the code does.
St ==
  [ conns |-> conns, conn |-> conn, halfOpen |-> halfOpen, peers |-> peers,
    dialing |-> dialing, incoming |-> incoming, piece |-> piece,
    complete |-> complete, content |-> content, verifier |-> verifier,
    badPeerIPs |-> badPeerIPs, dopplegangerAddrs |-> dopplegangerAddrs,
    duplicateClientConns |-> duplicateClientConns, clClosed |-> clClosed,
    panicked |-> panicked ]

Commit(S) ==
  /\ conns' = S.conns
  /\ conn' = S.conn
  /\ halfOpen' = S.halfOpen
  /\ peers' = S.peers
  /\ dialing' = S.dialing
  /\ incoming' = S.incoming
  /\ piece' = S.piece
  /\ complete' = S.complete
  /\ content' = S.content
  /\ verifier' = S.verifier
  /\ badPeerIPs' = S.badPeerIPs
  /\ dopplegangerAddrs' = S.dopplegangerAddrs
  /\ duplicateClientConns' = S.duplicateClientConns
  /\ clClosed' = S.clClosed
  /\ panicked' = S.panicked
  /\ UNCHANGED << hsVars, dfVars, apiVars, estVars, tmVars, mdVars, acVars >>

\* A connection object as newConnection leaves it.
FreeConn ==
  [ phase |-> "free", PeerID |-> "",
    closed |-> FALSE, Choked |-> TRUE, PeerChoked |-> TRUE,
    PeerInterested |-> FALSE, peerHasAll |-> FALSE,
    Requests |-> {}, PeerRequests |-> {}, peerTouchedPieces |-> {},
    UsefulChunksReceived |-> 0, UnwantedChunksReceived |-> 0, chunksSent |-> 0,
    goodPiecesDirtied |-> 0, badPiecesDirtied |-> 0,
    wr |-> << >> ]

newConnection(pid) == [FreeConn EXCEPT !.phase = "loop", !.PeerID = pid]

NewPiece ==
  [ EverHashed |-> FALSE, Hashing |-> FALSE, QueuedForHash |-> FALSE,
    pendingWrites |-> 0, dirty |-> {} ]

\* parked counts those of the queued goroutines that sit in cl.event.Wait.
NoVerifier ==
  [ queued |-> 0, parked |-> 0, reading |-> 0, sumOK |-> 0, sumBad |-> 0 ]

\* The zero values of handshake's results; "" stands for nil.
NoResult == [ peerExtensionBytes |-> "", Hash |-> "", peerID |-> "" ]
NoReply == [ read |-> "", proto |-> "", ext |-> "", Hash |-> "", peerID |-> "" ]
NoHandshake ==
  [ pc |-> "none", ih |-> "", todo |-> << >>, posted |-> 0, b |-> NoReply,
    res |-> NoResult, ok |-> FALSE, err |-> "" ]

\* cl.torrents before any torrent was added, and a caller outside any
\* public operation.
Hashes == {"h1", "h2"}
Callers == {"u1", "u2", "u3"}
NoSpec ==
  [ InfoHash |-> "", Info |-> "", DisplayName |-> "", ChunkSize |-> 0,
    Trackers |-> {} ]
NoTorrent ==
  [ present |-> FALSE, gen |-> 0, info |-> "", displayName |-> "",
    chunkSize |-> 0, trackers |-> {}, completed |-> 0 ]
Idle ==
  [ op |-> "", pc |-> "idle", ih |-> "", gen |-> 0, spec |-> NoSpec,
    todo |-> {}, new |-> FALSE, ok |-> FALSE, err |-> "", ret |-> FALSE ]

\* The zero value of dialResult and the state before dialFirst is called.
Transports == {"utp", "tcp"}
NoDialResult == [ Conn |-> "", UTP |-> FALSE ]
NoDialFirst ==
  [ pc |-> "none", DisableUTP |-> FALSE, DisableTCP |-> FALSE, cap |-> 0,
    left |-> 0, res |-> NoDialResult, conn |-> "", utp |-> FALSE,
    drain |-> "none", sent |-> << >>, recvd |-> << >> ]

\* establishOutgoingConn before it is called: the configuration it runs
\* under, the transport that won the dial race, the handshakes it tried, the
\* transport it dialed again, the net.Conns it closed and its results.  ncs
\* holds the net.Conns it obtained, in order, each open or closed; the
\* variable nc of the code is the last of them.
NoEstablish ==
  [ pc |-> "idle", disable |-> FALSE, utp |-> FALSE, tried |-> << >>,
    redialed |-> "", closed |-> 0, c |-> << >>, err |-> "", ncs |-> << >> ]

\* The pieces of the info dictionary a torrent added by info-hash fetches.
MetadataPieces == 0..1

\* No metadata piece is stored and the connection has asked for none.
NoMetadata ==
  [ metadataBytes |-> [i \in MetadataPieces |-> "none"], haveInfo |-> FALSE,
    metadataRequests |-> {}, UsefulChunksReceived |-> 0, posted |-> "",
    err |-> "" ]

\* acceptConnections at the top of its loop, with no connection.
NoAccept == [ pc |-> "waitAccept", conn |-> << >> ]

\* reducedDialTimeout before it is called.
NoTimeout == [ called |-> FALSE, max |-> 0, halfOpenLimit |-> 0,
               pendingPeers |-> 0, ret |-> 0 ]

Init ==
  /\ conns = {}
  /\ conn = [s \in Slots |-> FreeConn]
  /\ halfOpen = {}
  /\ peers = {}
  /\ dialing = [a \in Addrs |-> 0]
  /\ incoming = [a \in Addrs |-> 0]
  /\ piece = [p \in Pieces |-> NewPiece]
  /\ complete = [p \in Pieces |-> FALSE]
  /\ \E have \in {{}, Pieces} :
       content = [p \in Pieces |->
                    [ch \in Chunks(p) |-> IF p \in have THEN "good" ELSE "none"]]
  /\ verifier = [p \in Pieces |-> NoVerifier]
  /\ badPeerIPs = {}
  /\ dopplegangerAddrs = {}
  /\ duplicateClientConns = 0
  /\ clClosed = FALSE
  /\ panicked = ""
  /\ hsk = NoHandshake
  /\ postCh = [ buf |-> << >>, closed |-> FALSE ]
  /\ writeDone = << >>
  /\ writer = "none"
  /\ wrote = << >>
  /\ dfr = NoDialFirst
  /\ resCh = << >>
  /\ dial = [tr \in Transports |-> "none"]
  /\ nc = [tr \in Transports |-> "none"]
  /\ torrents = [ih \in Hashes |-> NoTorrent]
  /\ mu = ""
  /\ call = [u \in Callers |-> Idle]
  /\ est = NoEstablish
  /\ rdt = NoTimeout
  /\ md = NoMetadata
  /\ acl = NoAccept

\* ------------------------------------------------------- torrent helpers
pieceComplete(S, p) == S.complete[p]
havePiece(S, p) == pieceComplete(S, p)
needData(S) == \E p \in Pieces : ~pieceComplete(S, p)
seeding(S) == ~needData(S)
pieceAllDirty(S, p) == S.piece[p].dirty = Chunks(p)

wantPieceIndex(S, p) ==
  /\ ~S.piece[p].QueuedForHash
  /\ ~S.piece[p].Hashing
  /\ ~pieceComplete(S, p)

\* Do we want the chunk r = <<piece, chunk>>: the piece is wanted and the
\* chunk is still pending (not dirty).
wantPiece(S, r) == wantPieceIndex(S, r[1]) /\ r[2] \notin S.piece[r[1]].dirty

connHasWantedPieces(S, cr) ==
  cr.peerHasAll /\ \E p \in Pieces : ~pieceComplete(S, p)

\* --------------------------------------------------- connection methods
Choke(cr) ==
  IF cr.Choked THEN cr ELSE [cr EXCEPT !.PeerRequests = {}, !.Choked = TRUE]

Unchoke(cr) == IF cr.Choked THEN [cr EXCEPT !.Choked = FALSE] ELSE cr

RequestPending(cr, r) == r \in cr.Requests

\* connection.Cancel: true when the request was outstanding.
CancelOk(cr, r) == r \in cr.Requests
Cancel(cr, r) == [cr EXCEPT !.Requests = @ \ {r}]

\* Regenerate the outstanding requests of a connection: every pending chunk of
\* a wanted piece the peer has, unless the peer chokes us.
updateRequests(S, cr) ==
  IF cr.PeerChoked \/ ~cr.peerHasAll
  THEN cr
  ELSE [cr EXCEPT !.Requests = @ \cup {r \in AllRequests : wantPiece(S, r)}]

connDeleteRequest(cr, r) ==
  IF ~RequestPending(cr, r) THEN cr ELSE [cr EXCEPT !.Requests = @ \ {r}]

\* t.readAt of one chunk: the read is short when storage holds nothing there;
\* a read of no bytes is never short (n = len(b) = 0).
\* The error of t.readAt for the bytes of request r ("" for none): storage
\* that no longer holds the chunk reads short, storage that cannot be read
\* reports its own error.  A read of no bytes is never short.
readAt(S, r) ==
  IF zeroLength(r) THEN ""
  ELSE CASE S.content[r[1]][r[2]] = "none" -> "unexpected EOF"
         [] S.content[r[1]][r[2]] = "unreadable" -> "input/output error"
         [] OTHER -> ""

readOk(S, r) == readAt(S, r) = ""

sendChunk(cr) == [cr EXCEPT !.chunksSent = @ + 1]

RECURSIVE uploadLoop(_, _, _)
uploadLoop(S, cr, isSeeding) ==
  IF isSeeding \/ cr.chunksSent < cr.UsefulChunksReceived + uploadWindow
  THEN LET u == Unchoke(cr) IN
       IF u.PeerRequests = {}
       THEN u
       ELSE LET r == CHOOSE x \in u.PeerRequests : TRUE IN
            IF readOk(S, r)
            THEN uploadLoop(S, [sendChunk(u) EXCEPT !.PeerRequests = @ \ {r}],
                            isSeeding)
            ELSE Choke(u)
  ELSE Choke(cr)

\* upload serving as if the torrent were seeding.
uploadNoWindow(S, cr) ==
  IF ~cr.PeerInterested THEN cr
  ELSE IF ~seeding(S) /\ ~connHasWantedPieces(S, cr) THEN cr
  ELSE uploadLoop(S, cr, TRUE)

upload(S, cr) ==
  IF ~cr.PeerInterested THEN cr
  ELSE IF ~seeding(S) /\ ~connHasWantedPieces(S, cr) THEN cr
  ELSE uploadLoop(S, cr, seeding(S))

\* Apply a per-connection update to every connection of t.conns.
ForConns(S, F(_, _)) ==
  [S EXCEPT !.conn = [s \in Slots |-> IF s \in S.conns THEN F(S, S.conn[s])
                                                      ELSE S.conn[s]]]

\* ------------------------------------------------ connection admission
halfOpenLimit == socketsPerTorrent

\* cl.ipBlockList: the IPs of the configured blocklist.
ipBlockList == {"ip4"}

badPeerIPPort(S, a) ==
  \/ a.port = 0
  \/ a \in S.dopplegangerAddrs
  \/ a.ip \in ipBlockList
  \/ a.ip \in S.badPeerIPs

addrActive(S, a) ==
  a \in S.halfOpen \/ \E c \in S.conns : remoteAddr(c) = a

usefulConn(S, cr) ==
  IF cr.closed THEN FALSE
  ELSE IF seeding(S) THEN cr.PeerInterested
  ELSE connHasWantedPieces(S, cr)

\* The connection to evict, None when there is none: the worst of the useless
\* connections, by unwanted chunks received and then by position.
worstBadConn(S) ==
  LET bad == {c \in S.conns : ~usefulConn(S, S.conn[c])} IN
  IF bad = {} THEN None
  ELSE CHOOSE c \in bad : \A d \in bad :
         \/ S.conn[c].UnwantedChunksReceived > S.conn[d].UnwantedChunksReceived
         \/ /\ S.conn[c].UnwantedChunksReceived = S.conn[d].UnwantedChunksReceived
            /\ Rank(c) <= Rank(d)

wantConns(S) ==
  IF ~seeding(S) /\ ~needData(S) THEN FALSE
  ELSE IF Cardinality(S.conns) < socketsPerTorrent THEN TRUE
  ELSE worstBadConn(S) # None

Close(cr) == [cr EXCEPT !.closed = TRUE]

deleteConnection(S, c) == [S EXCEPT !.conns = @ \ {c}]

\* A peer is its address, with the peer-id it was announced with if any.
PeerId(p) == IF "Id" \in DOMAIN p THEN p.Id ELSE ""
PeerAddr(p) == [ ip |-> p.ip, port |-> p.port ]

\* initiateConn without its test for an attempt or connection in being.
initiateConnNoActiveTest(S, p) ==
  LET a == PeerAddr(p) IN
  IF PeerId(p) = OwnPeerID THEN S
  ELSE IF badPeerIPPort(S, a) THEN S
  ELSE [S EXCEPT !.halfOpen = @ \cup {a}, !.dialing[a] = @ + 1]

\* initiateConn without its test of the address.
initiateConnNoBadTest(S, p) ==
  LET a == PeerAddr(p) IN
  IF PeerId(p) = OwnPeerID THEN S
  ELSE IF addrActive(S, a) THEN S
  ELSE [S EXCEPT !.halfOpen = @ \cup {a}, !.dialing[a] = @ + 1]

initiateConn(S, p) ==
  LET a == PeerAddr(p) IN
  IF PeerId(p) = OwnPeerID THEN S
  ELSE IF badPeerIPPort(S, a) THEN S
  ELSE IF addrActive(S, a) THEN S
  ELSE [S EXCEPT !.halfOpen = @ \cup {a}, !.dialing[a] = @ + 1]

\* The peer the map iteration of openNewConns yields: the first of ord among
\* t.peers, ord being any order of the addresses.
FirstPeer(S, ord) ==
  ord[CHOOSE i \in 1..Len(ord) :
        ord[i] \in S.peers /\ \A j \in 1..(i - 1) : ord[j] \notin S.peers]

\* openNewConns without its test of the half-open limit.
RECURSIVE openNewConnsNoLimit(_, _)
openNewConnsNoLimit(S, ord) ==
  IF S.peers = {} THEN S
  ELSE IF ~wantConns(S) THEN S
  ELSE LET p == FirstPeer(S, ord) IN
       openNewConnsNoLimit(initiateConn([S EXCEPT !.peers = @ \ {p}], p), ord)

RECURSIVE openNewConns(_, _)
openNewConns(S, ord) ==
  IF S.peers = {} THEN S
  ELSE IF ~wantConns(S) THEN S
  ELSE IF Cardinality(S.halfOpen) >= halfOpenLimit THEN S
  ELSE LET p == FirstPeer(S, ord) IN
       openNewConns(initiateConn([S EXCEPT !.peers = @ \ {p}], p), ord)

dropConnection(S, c, ord) ==
  LET S1 == [S EXCEPT !.conn[c] = Close(@)] IN
  IF c \in S1.conns THEN openNewConns(deleteConnection(S1, c), ord) ELSE S1

noLongerHalfOpen(S, a, ord) ==
  IF a \notin S.halfOpen THEN [S EXCEPT !.panicked = "noLongerHalfOpen"]
  ELSE openNewConns([S EXCEPT !.halfOpen = @ \ {a}], ord)

\* addConnection(t, c) with c the object cr placed in slot s.  The result is
\* the new state and whether the connection was added.
Refused(S) == [S |-> S, ok |-> FALSE]

\* addConnection without its loop over the peer-ids of t.conns.
addConnectionNoDup(S, s, cr) ==
  IF S.clClosed THEN Refused(S)
  ELSE IF ~wantConns(S) THEN Refused(S)
  ELSE
    LET full == Cardinality(S.conns) >= socketsPerTorrent
        w == worstBadConn(S)
    IN
    IF full /\ w = None THEN Refused(S)
    ELSE
      LET S1 == IF full
                THEN deleteConnection([S EXCEPT !.conn[w] = Close(@)], w)
                ELSE S
      IN
      IF Cardinality(S1.conns) >= socketsPerTorrent
      THEN Refused([S1 EXCEPT !.panicked = "addConnection"])
      ELSE [S |-> [S1 EXCEPT !.conns = @ \cup {s}, !.conn[s] = cr], ok |-> TRUE]

\* addConnection without the eviction it does when t.conns is at the cap.
addConnectionNoEvict(S, s, cr) ==
  IF S.clClosed THEN Refused(S)
  ELSE IF ~wantConns(S) THEN Refused(S)
  ELSE IF \E c0 \in S.conns : S.conn[c0].PeerID = cr.PeerID
  THEN Refused([S EXCEPT !.duplicateClientConns = @ + 1])
  ELSE IF Cardinality(S.conns) >= socketsPerTorrent
  THEN Refused([S EXCEPT !.panicked = "addConnection"])
  ELSE [S |-> [S EXCEPT !.conns = @ \cup {s}, !.conn[s] = cr], ok |-> TRUE]

addConnection(S, s, cr) ==
  IF S.clClosed THEN Refused(S)
  ELSE IF ~wantConns(S) THEN Refused(S)
  ELSE IF \E c0 \in S.conns : S.conn[c0].PeerID = cr.PeerID
  THEN Refused([S EXCEPT !.duplicateClientConns = @ + 1])
  ELSE
    LET full == Cardinality(S.conns) >= socketsPerTorrent
        w == worstBadConn(S)
    IN
    IF full /\ w = None THEN Refused(S)
    ELSE
      LET S1 == IF full
                THEN deleteConnection([S EXCEPT !.conn[w] = Close(@)], w)
                ELSE S
      IN
      IF Cardinality(S1.conns) >= socketsPerTorrent
      THEN Refused([S1 EXCEPT !.panicked = "addConnection"])
      ELSE [S |-> [S1 EXCEPT !.conns = @ \cup {s}, !.conn[s] = cr], ok |-> TRUE]

\* ------------------------------------------------------ piece lifecycle
queuePieceCheck(S, p) ==
  IF S.piece[p].QueuedForHash THEN S
  ELSE [S EXCEPT !.piece[p].QueuedForHash = TRUE, !.verifier[p].queued = @ + 1]

queueFirstHash(S, p) ==
  IF \/ S.piece[p].EverHashed
     \/ S.piece[p].Hashing
     \/ S.piece[p].QueuedForHash
     \/ pieceComplete(S, p)
  THEN S
  ELSE queuePieceCheck(S, p)

pendAllChunkSpecs(S, p) == [S EXCEPT !.piece[p].dirty = {}]

\* The connections of t.conns that touched piece p.
Touchers(S, p) == {c \in S.conns : p \in S.conn[c].peerTouchedPieces}

reapPieceTouches(S, p) ==
  [S EXCEPT !.conn = [s \in Slots |->
     IF s \in Touchers(S, p)
     THEN [S.conn[s] EXCEPT !.peerTouchedPieces = @ \ {p}]
     ELSE S.conn[s]]]

banPeerIP(S, ip) == [S EXCEPT !.badPeerIPs = @ \cup {ip}]

CancelPiece(cr, p) == [cr EXCEPT !.Requests = {r \in @ : r[1] # p}]

\* onCompletedPiece without the cancelling of the piece's requests.
onCompletedPieceNoCancel(S, p) ==
  LET S1 == pendAllChunkSpecs(S, p)
      Each(T, cr) == upload(T, cr)
  IN ForConns(S1, Each)

onCompletedPiece(S, p) ==
  LET S1 == pendAllChunkSpecs(S, p)
      Each(T, cr) == upload(T, CancelPiece(cr, p))
  IN ForConns(S1, Each)

\* onFailedPiece without the re-pending of the chunks.
onFailedPieceNoPend(S, p, ord) ==
  IF ~wantPieceIndex(S, p) THEN S
  ELSE ForConns(openNewConns(S, ord), updateRequests)

onFailedPiece(S, p, ord) ==
  LET S1 == IF pieceAllDirty(S, p) THEN pendAllChunkSpecs(S, p) ELSE S IN
  IF ~wantPieceIndex(S1, p) THEN S1
  ELSE ForConns(openNewConns(S1, ord), updateRequests)

\* cl.event.Broadcast: every goroutine in cl.event.Wait is made runnable.
eventBroadcast(S) ==
  [S EXCEPT !.verifier = [q \in Pieces |-> [S.verifier[q] EXCEPT !.parked = 0]]]

\* pieceChanged without its deferred broadcast.
pieceChangedNoBroadcast(S, p, ord) ==
  IF pieceComplete(S, p) THEN onCompletedPiece(S, p)
  ELSE onFailedPiece(S, p, ord)

pieceChanged(S, p, ord) ==
  eventBroadcast(IF pieceComplete(S, p) THEN onCompletedPiece(S, p)
                 ELSE onFailedPiece(S, p, ord))

\* The loop of pieceHashed over the touchers of a failed piece.
RECURSIVE BanAndDrop(_, _, _)
BanAndDrop(S, cs, ord) ==
  IF cs = {} THEN S
  ELSE LET c == CHOOSE x \in cs : TRUE
           S1 == [S EXCEPT !.conn[c].badPiecesDirtied = @ + 1]
           S2 == banPeerIP(S1, remoteAddr(c).ip)
       IN BanAndDrop(dropConnection(S2, c, ord), cs \ {c}, ord)

\* pieceHashed marking the piece complete whatever the hash was.
pieceHashedMarkAlways(S, p, correct, ord) ==
  LET touchers == Touchers(S, p)
      S1 == reapPieceTouches([S EXCEPT !.piece[p].EverHashed = TRUE], p)
      S2 == [S1 EXCEPT
               !.conn = [s \in Slots |->
                  IF s \in touchers
                  THEN [S1.conn[s] EXCEPT !.goodPiecesDirtied = @ + 1]
                  ELSE S1.conn[s]],
               !.complete[p] = TRUE]
  IN pieceChanged(S2, p, ord)

\* pieceHashed leaving the touchers alone when the piece was never hashed
\* before.
pieceHashedFirstUnscored(S, p, correct, ord) ==
  LET first == ~S.piece[p].EverHashed
      touchers == Touchers(S, p)
      S1 == reapPieceTouches([S EXCEPT !.piece[p].EverHashed = TRUE], p)
      S2 == IF correct
            THEN [S1 EXCEPT
                    !.conn = [s \in Slots |->
                       IF s \in touchers /\ ~first
                       THEN [S1.conn[s] EXCEPT !.goodPiecesDirtied = @ + 1]
                       ELSE S1.conn[s]],
                    !.complete[p] = TRUE]
            ELSE IF touchers # {} /\ ~first THEN BanAndDrop(S1, touchers, ord)
            ELSE S1
  IN pieceChanged(S2, p, ord)

pieceHashed(S, p, correct, ord) ==
  LET touchers == Touchers(S, p)
      S1 == reapPieceTouches([S EXCEPT !.piece[p].EverHashed = TRUE], p)
      S2 == IF correct
            THEN [S1 EXCEPT
                    !.conn = [s \in Slots |->
                       IF s \in touchers
                       THEN [S1.conn[s] EXCEPT !.goodPiecesDirtied = @ + 1]
                       ELSE S1.conn[s]],
                    !.complete[p] = TRUE]
            ELSE IF touchers # {} THEN BanAndDrop(S1, touchers, ord)
            ELSE S1
  IN pieceChanged(S2, p, ord)

\* t.hashPiece: whether the SHA-1 of what storage holds equals p.Hash.
hashPiece(S, p) == \A ch \in Chunks(p) : S.content[p][ch] = "good"

\* t.hashPiece waits until no write to the piece is in flight.
waitNoPendingWrites(S, p) == S.piece[p].pendingWrites = 0

\* ------------------------------------------------------------- actions
\* Every order in which the map iteration of openNewConns can yield the peers
\* ps: with fewer than two peers the order makes no difference.
AllOrders ==
  {o \in [1..Cardinality(Addrs) -> Addrs] : \A i, j \in DOMAIN o : o[i] = o[j] => i = j}
Orders(ps) ==
  IF Cardinality(ps) < 2 THEN {CHOOSE o \in AllOrders : TRUE} ELSE AllOrders

\* A connection that was closed by another task while its own task sits in
\* the connection loop: the task returns at its next step without touching
\* the state, and nothing else is scheduled before it has.
Zombie(c) == conn[c].phase = "loop" /\ conn[c].closed
Quiet == panicked = "" /\ \A c \in Slots : ~Zombie(c)
Running(c) == Quiet /\ conn[c].phase = "loop" /\ ~clClosed

\* runHandshookConn: add the connection and enter the connection loop.
runHandshookConn(S, s, pid) == addConnection(S, s, newConnection(pid)).S

\* The end of runHandshookConn once connectionLoop has returned: the deferred
\* dropConnection, after which the connection object is garbage.
\* The loop returns and the connection stays in t.conns.
ExitConnNoDrop(S, c, ord) == [S EXCEPT !.conn[c] = FreeConn]

ExitConn(S, c, ord) == [dropConnection(S, c, ord) EXCEPT !.conn[c] = FreeConn]

\* runInitiatedHandshookConn without the test of the peer-id.
runInitiatedNoSelfTest(S, s, pid) == runHandshookConn(S, s, pid)

\* runInitiatedHandshookConn: a connection to ourselves is recorded as a
\* doppleganger and dropped.
runInitiatedHandshookConn(S, s, pid) ==
  IF pid = OwnPeerID
  THEN [S EXCEPT !.dopplegangerAddrs = @ \cup {remoteAddr(s)}]
  ELSE runHandshookConn(S, s, pid)

\* runReceivedConn from the lock on: pid = "" when the handshake gave no
\* torrent; a connection from ourselves is dropped.
runReceivedConn(S, s, pid) ==
  IF pid = "" \/ pid = OwnPeerID THEN S ELSE runHandshookConn(S, s, pid)

\* Discovery hands the client a peer address (addPeers, then Torrent.addPeer).
\* openNewConns has taken peer p from t.peers and calls initiateConn.
InitiateConn(p) ==
  /\ Quiet /\ ~clClosed
  /\ wantConns(St)
  /\ Cardinality(halfOpen) < halfOpenLimit
  /\ Commit(initiateConn(St, p))

AddPeers(a, ord) ==
  /\ Quiet /\ ~clClosed
  /\ ~badPeerIPPort(St, a)
  /\ a \notin peers
  /\ Commit(openNewConns([St EXCEPT !.peers = @ \cup {a}], ord))

\* acceptConnections: a remote endpoint connects while the torrent wants
\* connections; a bad address is closed at once.
\* acceptConnections after l.Accept returned a connection from a: it is
\* closed at once, or handed to incomingConnection.
acceptConnections(S, a) ==
  IF badPeerIPPort(S, a) THEN S ELSE [S EXCEPT !.incoming[a] = @ + 1]

AcceptConnection(a) ==
  /\ Quiet /\ ~clClosed
  /\ wantConns(St)
  /\ ~badPeerIPPort(St, a) =>
       /\ incoming[a] = 0 /\ conn[<< a, "in" >>].phase = "free"
       /\ Cardinality({b \in Addrs : incoming[b] > 0}) < MaxIncoming
  /\ incoming' = acceptConnections(St, a).incoming
  /\ UNCHANGED << conns, conn, halfOpen, peers, dialing, piece, complete,
                  content, verifier, badPeerIPs, dopplegangerAddrs,
                  duplicateClientConns, clClosed, panicked, hsVars,
                  dfVars, apiVars, estVars, tmVars, mdVars, acVars >>

\* runReceivedConn after receiveHandshakes: pid = "" when the handshake gave
\* no torrent, else the peer-id the remote presented.
ReceivedConn(a, pid) ==
  /\ Quiet
  /\ incoming[a] > 0
  /\ LET S1 == runReceivedConn([St EXCEPT !.incoming[a] = @ - 1], << a, "in" >>, pid)
     IN /\ S1.duplicateClientConns <= MaxDuplicates
        /\ Commit(S1)

\* outgoingConnection after establishOutgoingConn: pid = "" when no
\* connection was established, else the peer-id the remote presented.
OutgoingConnection(a, pid, ord) ==
  /\ Quiet
  /\ dialing[a] > 0
  /\ LET S0 == noLongerHalfOpen([St EXCEPT !.dialing[a] = @ - 1], a, ord) IN
     IF S0.panicked # "" \/ pid = ""
     THEN Commit(S0)
     ELSE /\ pid # OwnPeerID => conn[<< a, "out" >>].phase = "free"
          /\ LET S1 == runInitiatedHandshookConn(S0, << a, "out" >>, pid) IN
             /\ S1.duplicateClientConns <= MaxDuplicates
             /\ Commit(S1)

\* connectionLoop returns: the peer hung up, a read failed, or the connection
\* or the client was closed.
LoopExit(c, ord) ==
  /\ panicked = ""
  /\ conn[c].phase = "loop"
  /\ Quiet \/ Zombie(c)
  /\ Commit(ExitConn(St, c, ord))

\* ------------------------------------------------ Close and the accept loop
\* Torrent.close: the connections of the torrent are closed; their tasks
\* find that out at their next step.
torrentClose(S) ==
  [S EXCEPT !.conn = [c \in Slots |->
                        IF c \in S.conns THEN Close(S.conn[c]) ELSE S.conn[c]]]

\* Client.Close, between Lock and Unlock.
clientClose(S) == [torrentClose(S) EXCEPT !.clClosed = TRUE]

CloseClient ==
  /\ Quiet /\ ~clClosed
  /\ Commit(clientClose(St))

AcceptUnchanged ==
  UNCHANGED << conns, conn, halfOpen, peers, dialing, piece, complete,
               content, verifier, badPeerIPs, dopplegangerAddrs,
               duplicateClientConns, clClosed, panicked, hsVars, dfVars,
               apiVars, estVars, tmVars, mdVars >>

\* waitAccept returns to acceptConnections: a torrent wants connections, or
\* the client is closed.  Otherwise it stays in event.Wait.
WaitAccept ==
  /\ Quiet
  /\ acl.pc = "waitAccept"
  /\ wantConns(St) \/ clClosed
  /\ acl' = [acl EXCEPT !.pc = "Accept"]
  /\ UNCHANGED incoming
  /\ AcceptUnchanged

\* l.Accept returns, with a connection from a or with an error (ok = FALSE),
\* and acceptConnections tests cl.closed and the error.  Close closes the
\* listeners, so that a closed client is one whose Accept returned for it.
Accept(a, ok) ==
  /\ Quiet
  /\ acl.pc = "Accept"
  /\ clClosed => ~ok
  /\ ok /\ ~badPeerIPPort(St, a) =>
           /\ incoming[a] = 0 /\ conn[<< a, "in" >>].phase = "free"
           /\ Cardinality({b \in Addrs : incoming[b] > 0}) < MaxIncoming
  /\ acl' = IF clClosed \/ ~ok THEN [pc |-> "returned", conn |-> << >>]
            ELSE [pc |-> "accepted", conn |-> a]
  /\ UNCHANGED incoming
  /\ AcceptUnchanged

\* The rest of the iteration, from cl.mu.RLock on: the connection is closed
\* when its address is bad, else incomingConnection is started with it.
AcceptHandOff ==
  /\ Quiet
  /\ acl.pc = "accepted"
  /\ incoming' = acceptConnections(St, acl.conn).incoming
  /\ acl' = NoAccept
  /\ AcceptUnchanged

\* ------------------------------------------ connectionLoop, per message
SetConn(S, c, cr) == [S EXCEPT !.conn[c] = cr]

MsgChoke(c) ==
  /\ Running(c)
  /\ ~conn[c].PeerChoked
  /\ Commit(SetConn(St, c,
       updateRequests(St, [conn[c] EXCEPT !.PeerChoked = TRUE, !.Requests = {}])))

MsgUnchoke(c) ==
  /\ Running(c)
  /\ conn[c].PeerChoked
  /\ Commit(SetConn(St, c, updateRequests(St, [conn[c] EXCEPT !.PeerChoked = FALSE])))

MsgReject(c, r) ==
  /\ Running(c)
  /\ r \in conn[c].Requests
  /\ Commit(SetConn(St, c, updateRequests(St, connDeleteRequest(conn[c], r))))

\* peerSentHaveAll and peerSentHaveNone replace the peer's bitmap.
MsgHaveAll(c) ==
  /\ Running(c)
  /\ ~conn[c].peerHasAll
  /\ Commit(SetConn(St, c, updateRequests(St, [conn[c] EXCEPT !.peerHasAll = TRUE])))

MsgHaveNone(c) ==
  /\ Running(c)
  /\ conn[c].peerHasAll
  /\ Commit(SetConn(St, c, [conn[c] EXCEPT !.peerHasAll = FALSE]))

\* connection.PeerCancel: forget a request of the peer.
PeerCancel(cr, r) == [cr EXCEPT !.PeerRequests = @ \ {r}]

MsgInterested(c) ==
  /\ Running(c)
  /\ ~conn[c].PeerInterested
  /\ Commit(SetConn(St, c, upload(St, [conn[c] EXCEPT !.PeerInterested = TRUE])))

MsgNotInterested(c) ==
  /\ Running(c)
  /\ conn[c].PeerInterested
  /\ Commit(SetConn(St, c, Choke([conn[c] EXCEPT !.PeerInterested = FALSE])))

\* A Request of the peer: ignored while we choke it, an error (which ends
\* the connection loop) when the peer is not interested or asks for a piece
\* we do not have, else recorded and served by the upload pass.
\* The Request handler failing the connection while we choke the peer.
msgRequestChokedError(S, c, r, ord) ==
  LET cr == S.conn[c] IN
  IF cr.Choked THEN ExitConn(S, c, ord)
  ELSE IF ~cr.PeerInterested THEN ExitConn(S, c, ord)
  ELSE IF ~havePiece(S, r[1]) THEN ExitConn(S, c, ord)
  ELSE SetConn(S, c, upload(S, [cr EXCEPT !.PeerRequests = @ \cup {r}]))

\* The Request handler ignoring a request for a piece we do not have.
msgRequestDropMissing(S, c, r, ord) ==
  LET cr == S.conn[c] IN
  IF cr.Choked THEN S
  ELSE IF ~cr.PeerInterested THEN ExitConn(S, c, ord)
  ELSE IF ~havePiece(S, r[1]) THEN S
  ELSE SetConn(S, c, upload(S, [cr EXCEPT !.PeerRequests = @ \cup {r}]))

\* The Request handler without its test of c.Choked.
msgRequestWhileChoked(S, c, r, ord) ==
  LET cr == S.conn[c] IN
  IF ~cr.PeerInterested THEN ExitConn(S, c, ord)
  ELSE IF ~havePiece(S, r[1]) THEN ExitConn(S, c, ord)
  ELSE SetConn(S, c, upload(S, [cr EXCEPT !.PeerRequests = @ \cup {r}]))

msgRequest(S, c, r, ord) ==
  LET cr == S.conn[c] IN
  IF cr.Choked THEN S
  ELSE IF ~cr.PeerInterested THEN ExitConn(S, c, ord)
  ELSE IF ~havePiece(S, r[1]) THEN ExitConn(S, c, ord)
  ELSE SetConn(S, c, upload(S, [cr EXCEPT !.PeerRequests = @ \cup {r}]))

MsgRequest(c, r, ord) ==
  /\ Running(c)
  /\ conn[c].chunksSent < MaxSent
  /\ Commit(msgRequest(St, c, r, ord))

MsgCancel(c, r) ==
  /\ Running(c)
  /\ r \in conn[c].PeerRequests
  /\ Commit(SetConn(St, c, PeerCancel(conn[c], r)))

\* downloadedChunk up to the point it releases the lock for the write (or
\* returns because the chunk is unwanted).
\* The arrival leaves the other connections' requests for the chunk alone.
connCancelNone(T, cr, r) == cr

\* One round of the loop over t.conns: connCancel, and updateRequests when
\* a request was cancelled.
connCancel(T, cr, r) ==
  IF CancelOk(cr, r) THEN updateRequests(T, Cancel(cr, r)) ELSE cr

downloadedChunk(S, c, r, data) ==
  LET had == RequestPending(S.conn[c], r)
      cr0 == connDeleteRequest(S.conn[c], r)
  IN
  IF r[1] \notin Pieces
  THEN [S EXCEPT !.panicked = "downloadedChunk"]
  ELSE IF ~wantPiece(S, r)
  THEN LET cr1 == [cr0 EXCEPT !.UnwantedChunksReceived = @ + 1] IN
       SetConn(S, c, IF had THEN updateRequests(S, cr1) ELSE cr1)
  ELSE
    LET cr1 == upload(S, [cr0 EXCEPT !.UsefulChunksReceived = @ + 1])
        S1 == [SetConn(S, c, cr1) EXCEPT
                 !.piece[r[1]].pendingWrites = @ + 1,
                 !.piece[r[1]].dirty = @ \cup {r[2]}]
        Each(T, cr) == connCancel(T, cr, r)
        S2 == ForConns(S1, Each)
    IN [S2 EXCEPT !.conn[c].phase = "write", !.conn[c].wr = << r, data, had >>]

MsgPiece(c, r, data) ==
  /\ Running(c)
  /\ IF r[1] \notin Pieces THEN TRUE
     ELSE IF wantPiece(St, r)
     THEN conn[c].UsefulChunksReceived < MaxUseful
     ELSE conn[c].UnwantedChunksReceived < MaxUnwanted
  /\ Commit(downloadedChunk(St, c, r, data))

\* downloadedChunk from the point t.writeChunk has returned, the lock taken
\* again; ok is whether the write succeeded.
\* The chunk is in storage: the piece is queued for its check once all its
\* chunks are dirty, and the sender has touched the piece.
chunkStored(S, c, r) ==
  LET p == r[1]
      S3 == IF pieceAllDirty(S, p) THEN queuePieceCheck(S, p) ELSE S
  IN eventBroadcast([S3 EXCEPT !.conn[c].peerTouchedPieces = @ \cup {p}])

\* A failed write treated like a successful one.
writeErrorIgnored(S, c, r) == chunkStored(S, c, r)

\* writeChunk returned an error: t.pendRequest makes the chunk wanted again.
writeError(S, c, r) == [S EXCEPT !.piece[r[1]].dirty = @ \ {r[2]}]

chunkWritten(S, c, ok) ==
  LET r == S.conn[c].wr[1]
      had == S.conn[c].wr[3]
      p == r[1]
      S1 == [S EXCEPT !.piece[p].pendingWrites = @ - 1]
      S2 == IF ~ok THEN writeError(S1, c, r) ELSE chunkStored(S1, c, r)
      cr == [S2.conn[c] EXCEPT !.phase = "loop", !.wr = << >>]
  IN SetConn(S2, c, IF had THEN updateRequests(S2, cr) ELSE cr)

WriteChunk(c, ok) ==
  /\ Quiet
  /\ conn[c].phase = "write"
  /\ LET r == conn[c].wr[1] IN
     /\ content' = IF ok THEN [content EXCEPT ![r[1]][r[2]] = conn[c].wr[2]]
                   ELSE content
     /\ LET S == chunkWritten(St, c, ok) IN
        /\ conns' = S.conns /\ conn' = S.conn /\ piece' = S.piece
        /\ verifier' = S.verifier
  /\ UNCHANGED << halfOpen, peers, dialing, incoming, complete, badPeerIPs,
                  dopplegangerAddrs, duplicateClientConns, clClosed, panicked, hsVars,
                  dfVars, apiVars, estVars, tmVars, mdVars, acVars >>

\* --------------------------------------------------------- verifyPiece
QueueFirstHash(p) ==
  /\ Quiet
  /\ queueFirstHash(St, p) # St
  /\ Commit(queueFirstHash(St, p))

\* verifyPiece from the lock to the point it releases it to hash (or returns
\* because the piece is already complete).
verifyPieceBeginKeepQueued(S, p) ==
  LET S1 == [S EXCEPT !.verifier[p].queued = @ - 1]
  IN IF pieceComplete(S1, p) THEN S1
     ELSE [S1 EXCEPT !.piece[p].Hashing = TRUE, !.verifier[p].reading = @ + 1]

verifyPieceBegin(S, p) ==
  LET S1 == [S EXCEPT !.piece[p].QueuedForHash = FALSE,
                      !.verifier[p].queued = @ - 1]
  IN IF pieceComplete(S1, p) THEN S1
     ELSE [S1 EXCEPT !.piece[p].Hashing = TRUE, !.verifier[p].reading = @ + 1]

\* verifyPiece finds the piece being hashed and waits for the event.
VerifyPieceWait(p) ==
  /\ Quiet
  /\ verifier[p].queued > verifier[p].parked
  /\ piece[p].Hashing
  /\ Commit([St EXCEPT !.verifier[p].parked = @ + 1])

VerifyPieceBegin(p) ==
  /\ Quiet
  /\ verifier[p].queued > verifier[p].parked
  /\ ~piece[p].Hashing
  /\ Commit(verifyPieceBegin(St, p))

\* t.hashPiece, run without the lock.
\* Storage loses a chunk behind the client's back, or can no longer read it.
StorageFault(p, ch, how) ==
  /\ Quiet
  /\ content[p][ch] = "good"
  /\ content' = [content EXCEPT ![p][ch] = how]
  /\ UNCHANGED << conns, conn, halfOpen, peers, dialing, incoming, piece,
                  complete, verifier, badPeerIPs, dopplegangerAddrs,
                  duplicateClientConns, clClosed, panicked, hsVars,
                  dfVars, apiVars, estVars, tmVars, mdVars, acVars >>

HashPiece(p) ==
  /\ Quiet
  /\ verifier[p].reading > 0
  /\ waitNoPendingWrites(St, p)
  /\ verifier' = [verifier EXCEPT
       ![p].reading = @ - 1,
       ![p].sumOK = IF hashPiece(St, p) THEN @ + 1 ELSE @,
       ![p].sumBad = IF hashPiece(St, p) THEN @ ELSE @ + 1]
  /\ UNCHANGED << conns, conn, halfOpen, peers, dialing, incoming, piece,
                  complete, content, badPeerIPs, dopplegangerAddrs,
                  duplicateClientConns, clClosed, panicked, hsVars,
                  dfVars, apiVars, estVars, tmVars, mdVars, acVars >>

\* verifyPiece from the lock taken again after hashing to its return.
verifyPieceEnd(S, p, correct, ord) ==
  LET S1 == [S EXCEPT !.piece[p].Hashing = FALSE,
                      !.verifier[p].sumOK = IF correct THEN @ - 1 ELSE @,
                      !.verifier[p].sumBad = IF correct THEN @ ELSE @ - 1]
  IN pieceHashed(S1, p, correct, ord)

VerifyPieceEnd(p, correct, ord) ==
  /\ Quiet
  /\ IF correct THEN verifier[p].sumOK > 0 ELSE verifier[p].sumBad > 0
  /\ Commit(verifyPieceEnd(St, p, correct, ord))

\* ----------------------------------------------------------- handshake
\* Client.PeerID: the peer-id NewClient chose.
PeerID == OwnPeerID

\* What the wire can carry: the protocol header, info-hashes, peer-ids.
Protocol == "BitTorrent protocol"
InfoHash == "h1"
postChCap == 4

\* What io.ReadFull can give for the 68 bytes of the peer's handshake: a
\* short read, or the four fields with any header, hash and peer-id.
Replies ==
  {[NoReply EXCEPT !.read = "short"]} \cup
  [ read : {"full"}, proto : {Protocol, "other"}, ext : {"e"},
    Hash : Hashes, peerID : {OwnPeerID, "p1"} ]

\* The part of the state handshake's closures work on.
HS == [ hsk |-> hsk, postCh |-> postCh, panicked |-> panicked ]

\* post: a send that panics instead of blocking.
post(H, bb) ==
  IF Len(H.postCh.buf) < postChCap
  THEN [H EXCEPT !.postCh.buf = Append(@, bb), !.hsk.posted = @ + 1]
  ELSE [H EXCEPT !.panicked = "post"]

\* The buffers posted before the peer's handshake is read.
firstPosts(ih) ==
  << Protocol, "extensions" >> \o (IF ih # "" THEN << ih, OwnPeerID >> ELSE << >>)

\* The receiver answers with the peer-id it was sent.
secondPostsEcho(ih, res) ==
  IF ih = "" THEN << res.Hash, res.peerID >> ELSE << >>

\* The handshake posts a second set of buffers whoever it is.
secondPostsAlways(ih, res) == << res.Hash, OwnPeerID >>

\* The buffers posted after it.
secondPosts(ih, res) ==
  IF ih = "" THEN << res.Hash, OwnPeerID >> ELSE << >>

\* Where handshake goes once the buffers at hand are posted: to the read
\* before the peer's handshake was read, to "ok = true; return" after it.
afterPosts(h) ==
  IF h.todo # << >> THEN [h EXCEPT !.pc = "post"]
  ELSE IF h.b.read = "" THEN [h EXCEPT !.pc = "read"]
  ELSE [h EXCEPT !.ok = TRUE, !.pc = "defer"]

\* handshake on a read that ended in an error.
readFailedKeepErr(h) == [h EXCEPT !.pc = "defer"]

readFailed(h) == [h EXCEPT !.err = "", !.pc = "defer"]

\* handshake from the return of io.ReadFull to its next post or its return.
readReply(h, b) ==
  IF b.read # "full" THEN readFailed([h EXCEPT !.b = b, !.err = "unexpected EOF"])
  ELSE IF b.proto # Protocol THEN [h EXCEPT !.b = b, !.pc = "defer"]
  ELSE LET res == [ peerExtensionBytes |-> b.ext, Hash |-> b.Hash,
                    peerID |-> b.peerID ]
       IN afterPosts([h EXCEPT !.b = b, !.res = res,
                               !.todo = secondPosts(h.ih, res)])

\* The deferred function up to the wait for the writer.
deferred(H) ==
  LET H1 == [H EXCEPT !.postCh.closed = TRUE] IN
  IF ~H1.hsk.ok THEN [H1 EXCEPT !.hsk.pc = "returned"]
  ELSE IF H1.hsk.err # "" THEN [H1 EXCEPT !.panicked = "handshake"]
  ELSE [H1 EXCEPT !.hsk.pc = "wait"]

\* handshake is called: the channels are made and the writer is started.
\* ih = "" is the receiver, which learns the info-hash from the peer.
Handshake(ih) ==
  /\ panicked = ""
  /\ hsk.pc = "none"
  /\ hsk' = afterPosts([NoHandshake EXCEPT !.ih = ih, !.todo = firstPosts(ih)])
  /\ postCh' = [ buf |-> << >>, closed |-> FALSE ]
  /\ writeDone' = << >>
  /\ writer' = "range"
  /\ wrote' = << >>
  /\ UNCHANGED << conns, conn, halfOpen, peers, dialing, incoming, piece,
                  complete, content, verifier, badPeerIPs, dopplegangerAddrs,
                  duplicateClientConns, clClosed, panicked, dfVars, apiVars, estVars, tmVars, mdVars, acVars >>

HandshakeUnchanged ==
  UNCHANGED << conns, conn, halfOpen, peers, dialing, incoming, piece,
               complete, content, verifier, badPeerIPs, dopplegangerAddrs,
               duplicateClientConns, clClosed, dfVars, apiVars, estVars, tmVars, mdVars, acVars >>

\* One call of post.
Post ==
  /\ panicked = ""
  /\ hsk.pc = "post"
  /\ LET H == post(HS, Head(hsk.todo)) IN
     /\ panicked' = H.panicked
     /\ postCh' = H.postCh
     /\ hsk' = IF H.panicked # "" THEN H.hsk
               ELSE afterPosts([H.hsk EXCEPT !.todo = Tail(@)])
  /\ UNCHANGED << writeDone, writer, wrote >>
  /\ HandshakeUnchanged

\* io.ReadFull returns.
ReadReply(b) ==
  /\ panicked = ""
  /\ hsk.pc = "read"
  /\ hsk' = readReply(hsk, b)
  /\ UNCHANGED << postCh, writeDone, writer, wrote, panicked >>
  /\ HandshakeUnchanged

\* handshake returns: the deferred function runs.
Deferred ==
  /\ panicked = ""
  /\ hsk.pc = "defer"
  /\ LET H == deferred(HS) IN
     /\ hsk' = H.hsk /\ postCh' = H.postCh /\ panicked' = H.panicked
  /\ UNCHANGED << writeDone, writer, wrote >>
  /\ HandshakeUnchanged

\* The deferred function receives the writer's error.
WaitWriteDone ==
  /\ panicked = ""
  /\ hsk.pc = "wait"
  /\ writeDone # << >>
  /\ hsk' = [hsk EXCEPT !.pc = "returned",
                        !.err = IF Head(writeDone) # "" THEN "error writing" ELSE ""]
  /\ writeDone' = Tail(writeDone)
  /\ UNCHANGED << postCh, writer, wrote, panicked >>
  /\ HandshakeUnchanged

\* handshakeWriter takes a buffer from the queue and writes it; a failed
\* write ends the loop.
WriterWrite(written) ==
  /\ panicked = ""
  /\ writer = "range"
  /\ postCh.buf # << >>
  /\ postCh' = [postCh EXCEPT !.buf = Tail(@)]
  /\ IF written
     THEN /\ wrote' = Append(wrote, Head(postCh.buf))
          /\ UNCHANGED << writer, writeDone >>
     ELSE /\ writer' = "done"
          /\ writeDone' = Append(writeDone, "write error")
          /\ UNCHANGED wrote
  /\ UNCHANGED << hsk, panicked >>
  /\ HandshakeUnchanged

\* handshakeWriter finds the queue closed and drained.
WriterEnd ==
  /\ panicked = ""
  /\ writer = "range"
  /\ postCh.buf = << >> /\ postCh.closed
  /\ writer' = "done"
  /\ writeDone' = Append(writeDone, "")
  /\ UNCHANGED << hsk, postCh, wrote, panicked >>
  /\ HandshakeUnchanged

\* The caller has the result and the writer is gone: the next connection
\* can shake hands.
HandshakeReturned ==
  /\ panicked = ""
  /\ hsk.pc = "returned" /\ writer = "done"
  /\ hsk' = NoHandshake
  /\ postCh' = [ buf |-> << >>, closed |-> FALSE ]
  /\ writeDone' = << >>
  /\ writer' = "none"
  /\ wrote' = << >>
  /\ UNCHANGED panicked
  /\ HandshakeUnchanged

\* ----------------------------------------------------------- dialFirst
\* The transports the configuration leaves enabled.
enabled(f) ==
  {tr \in Transports : IF tr = "utp" THEN ~f.DisableUTP ELSE ~f.DisableTCP}

\* What a dial can come back with: a connection, an error, or an error
\* together with a connection, which doDial closes.
DialOutcomes == {"ok", "err", "errConn"}

\* The loop of dialFirst ends at the last result whatever it is.
dialFirstWaitAll(f) == f.left > 0

\* The condition of the loop that waits for a successful connection.
dialFirstWait(f) == f.left > 0 /\ f.res.Conn = ""

\* dialFirst from the end of the loop to its return: the goroutine that
\* takes the remaining results is started when there are any.
dialFirstReturn(f) ==
  [f EXCEPT !.drain = IF f.left > 0 THEN "running" ELSE @,
            !.conn = f.res.Conn, !.utp = f.res.UTP, !.pc = "returned"]

\* dialFirst from the test of the loop to the next receive or the return.
dialFirstLoop(f) ==
  IF dialFirstWait(f) THEN [f EXCEPT !.pc = "wait"] ELSE dialFirstReturn(f)

\* The goroutine of the remaining results forgets the connection it took.
drainNoClose(sockets, c) == sockets

\* The goroutine of the remaining results closes the connection it took.
drainClose(sockets, c) ==
  IF c # "" THEN [sockets EXCEPT ![c] = "closed"] ELSE sockets

\* dialFirst is called: one doDial per enabled transport, and the loop up to
\* its first receive.
DialFirst(disableUTP, disableTCP) ==
  /\ panicked = ""
  /\ dfr.pc = "none"
  /\ LET f0 == [NoDialFirst EXCEPT !.DisableUTP = disableUTP,
                                   !.DisableTCP = disableTCP]
         f1 == [f0 EXCEPT !.left = Cardinality(enabled(f0)),
                          !.cap = Cardinality(enabled(f0))]
     IN /\ dfr' = dialFirstLoop(f1)
        /\ dial' = [tr \in Transports |->
                      IF tr \in enabled(f0) THEN "dialing" ELSE "none"]
  /\ resCh' = << >>
  /\ nc' = [tr \in Transports |-> "none"]
  /\ UNCHANGED << conns, conn, halfOpen, peers, dialing, incoming, piece,
                  complete, content, verifier, badPeerIPs, dopplegangerAddrs,
                  duplicateClientConns, clClosed, panicked, hsVars, apiVars, estVars, tmVars, mdVars, acVars >>

DialUnchanged ==
  UNCHANGED << conns, conn, halfOpen, peers, dialing, incoming, piece,
               complete, content, verifier, badPeerIPs, dopplegangerAddrs,
               duplicateClientConns, clClosed, panicked, hsVars, apiVars, estVars, tmVars, mdVars, acVars >>

\* doDial: the dial returns and its result is sent.  A send that finds the
\* channel full leaves the goroutine blocked in it.
DoDial(tr, outcome) ==
  /\ panicked = ""
  /\ dial[tr] = "dialing"
  /\ nc' = [nc EXCEPT ![tr] = CASE outcome = "ok" -> "open"
                                [] outcome = "errConn" -> "closed"
                                [] OTHER -> "none"]
  /\ LET result == [ Conn |-> IF outcome = "ok" THEN tr ELSE "",
                     UTP |-> tr = "utp" ]
     IN IF Len(resCh) < dfr.cap
        THEN /\ resCh' = Append(resCh, result)
             /\ dfr' = [dfr EXCEPT !.sent = Append(@, result)]
             /\ dial' = [dial EXCEPT ![tr] = "done"]
        ELSE /\ dial' = [dial EXCEPT ![tr] = "blocked"]
             /\ UNCHANGED << resCh, dfr >>
  /\ DialUnchanged

\* dialFirst receives a result in its loop.
DialFirstReceive ==
  /\ panicked = ""
  /\ dfr.pc = "wait"
  /\ resCh # << >>
  /\ dfr' = dialFirstLoop([dfr EXCEPT !.res = Head(resCh), !.left = @ - 1,
                                      !.recvd = Append(@, Head(resCh))])
  /\ resCh' = Tail(resCh)
  /\ UNCHANGED << dial, nc >>
  /\ DialUnchanged

\* The goroutine of the remaining results receives one.
Drain ==
  /\ panicked = ""
  /\ dfr.drain = "running"
  /\ resCh # << >>
  /\ nc' = drainClose(nc, Head(resCh).Conn)
  /\ dfr' = [dfr EXCEPT !.left = @ - 1,
                        !.recvd = Append(@, Head(resCh)),
                        !.drain = IF dfr.left - 1 > 0 THEN @ ELSE "done"]
  /\ resCh' = Tail(resCh)
  /\ UNCHANGED dial
  /\ DialUnchanged

\* Every goroutine of the call has ended: the next address is dialed.
DialFirstReturned ==
  /\ panicked = ""
  /\ dfr.pc = "returned" /\ dfr.drain # "running"
  /\ \A tr \in Transports : dial[tr] \in {"none", "done"}
  /\ dfr' = NoDialFirst
  /\ resCh' = << >>
  /\ dial' = [tr \in Transports |-> "none"]
  /\ nc' = [tr \in Transports |-> "none"]
  /\ DialUnchanged

\* --------------------------------------------------- public operations
MaxAdds == 2
defaultChunkSize == 16384

\* The torrent specs the callers add: two for the same info-hash, one whose
\* info bytes do not decode.
Specs ==
  { [ InfoHash |-> "h1", Info |-> "", DisplayName |-> "", ChunkSize |-> 0,
      Trackers |-> {"t1"} ],
    [ InfoHash |-> "h1", Info |-> "i1", DisplayName |-> "n", ChunkSize |-> 1,
      Trackers |-> {"t2"} ],
    [ InfoHash |-> "h2", Info |-> "bad", DisplayName |-> "", ChunkSize |-> 0,
      Trackers |-> {"t1"} ] }

newTorrent(old) ==
  [NoTorrent EXCEPT !.present = TRUE, !.gen = old.gen + 1,
                    !.chunkSize = defaultChunkSize]

\* AddTorrentInfoHash without the lookup of the info-hash.
AddTorrentInfoHashAlways(ts, ih) ==
  [ ts |-> [ts EXCEPT ![ih] = newTorrent(@)], new |-> TRUE ]

\* AddTorrentInfoHash, between Lock and Unlock.
AddTorrentInfoHash(ts, ih) ==
  IF ts[ih].present THEN [ ts |-> ts, new |-> FALSE ]
  ELSE [ ts |-> [ts EXCEPT ![ih] = newTorrent(@)], new |-> TRUE ]

\* Whether the *Torrent a caller holds is the one the map has.
Attached(ts, ih, gen) == ts[ih].present /\ ts[ih].gen = gen

\* Torrent.SetDisplayName.
SetDisplayName(ts, ih, gen, name) ==
  IF Attached(ts, ih, gen) THEN [ts EXCEPT ![ih].displayName = name] ELSE ts

\* Torrent.SetInfoBytes: the info is set once, and only if it decodes.
SetInfoBytes(ts, ih, gen, b) ==
  IF ~Attached(ts, ih, gen) THEN [ ts |-> ts, err |-> "" ]
  ELSE IF ts[ih].info # "" THEN [ ts |-> ts, err |-> "" ]
  ELSE IF b = "bad" THEN [ ts |-> ts, err |-> "error unmarshalling info bytes" ]
  ELSE [ ts |-> [ts EXCEPT ![ih].info = b], err |-> "" ]

\* The last critical section of AddTorrentSpec: the chunk size and
\* Torrent.addTrackers, which merges.
addTrackers(ts, ih, gen, spec) ==
  IF ~Attached(ts, ih, gen) THEN ts
  ELSE [ts EXCEPT ![ih].chunkSize = IF spec.ChunkSize # 0 THEN spec.ChunkSize ELSE @,
                  ![ih].trackers = @ \cup spec.Trackers]

\* AddTorrentSpec run alone from its call to its return.
AddTorrentSpec(ts, spec) ==
  LET ih == spec.InfoHash
      a == AddTorrentInfoHash(ts, ih)
      gen == a.ts[ih].gen
      ts1 == IF spec.DisplayName # ""
             THEN SetDisplayName(a.ts, ih, gen, spec.DisplayName) ELSE a.ts
      i == IF spec.Info # "" THEN SetInfoBytes(ts1, ih, gen, spec.Info)
           ELSE [ ts |-> ts1, err |-> "" ]
  IN IF i.err # "" THEN [ ts |-> i.ts, new |-> a.new, err |-> i.err ]
     ELSE [ ts |-> addTrackers(i.ts, ih, gen, spec), new |-> a.new, err |-> "" ]

\* Client.dropTorrent, between the Lock and Unlock of Torrent.Drop.
dropTorrent(ts, ih) ==
  IF ~ts[ih].present THEN [ ts |-> ts, err |-> "no such torrent" ]
  ELSE [ ts |-> [ts EXCEPT ![ih] = [NoTorrent EXCEPT !.gen = ts[ih].gen]],
         err |-> "" ]

\* allTorrentsCompleted without the test of haveInfo.
allTorrentsCompletedNoInfo(ts) ==
  \A ih \in Hashes : ts[ih].present =>
    (ts[ih].info = "" \/ ts[ih].completed = NumPieces)

\* allTorrentsCompleted: every torrent has its info and all its pieces.
allTorrentsCompleted(ts) ==
  \A ih \in Hashes : ts[ih].present =>
    (ts[ih].info # "" /\ ts[ih].completed = NumPieces)

\* cl.event.Signal in the place of Broadcast: one caller in event.Wait goes
\* for the lock again.
BroadcastOne(cs) ==
  IF \A u \in Callers : cs[u].pc # "event.Wait" THEN cs
  ELSE LET w == CHOOSE u \in Callers : cs[u].pc = "event.Wait" IN
       [cs EXCEPT ![w].pc = "lock:" \o cs[w].op]

\* cl.event.Broadcast: every caller in event.Wait goes for the lock again.
Broadcast(cs) ==
  [u \in Callers |->
     IF cs[u].pc = "event.Wait" THEN [cs[u] EXCEPT !.pc = "lock:" \o cs[u].op]
     ELSE cs[u]]

ApiUnchanged ==
  UNCHANGED << conns, conn, halfOpen, peers, dialing, incoming, piece,
               complete, content, verifier, badPeerIPs, dopplegangerAddrs,
               duplicateClientConns, hsVars, dfVars, estVars, tmVars, mdVars, acVars >>

\* The sections that run between Lock and Unlock, and the ones that read or
\* range over cl.torrents without it.
Locked == {"AddTorrentInfoHash", "SetDisplayName", "SetInfoBytes",
           "addTrackers", "Drop", "WaitAll", "Torrent", "Close",
           "waitAccept"}
Unlocked == {"DropTorrent", "DropAllTorrent", "CheckExistsInfoHash"}

\* A caller enters a public operation.
Call(u, op, ih, spec) ==
  /\ panicked = ""
  /\ call[u].pc \in {"idle", "done"}
  /\ call' = [call EXCEPT ![u] =
       [Idle EXCEPT !.op = op, !.ih = ih, !.spec = spec,
                    !.pc = CASE op = "AddTorrentSpec" -> "lock:AddTorrentInfoHash"
                             [] op \in Unlocked -> op
                             [] OTHER -> "lock:" \o op]]
  /\ UNCHANGED << torrents, mu, clClosed, panicked >>
  /\ ApiUnchanged

\* cl.mu.Lock returns.
Lock(u) ==
  /\ panicked = ""
  /\ mu = ""
  /\ \E sec \in Locked : call[u].pc = "lock:" \o sec /\
       call' = [call EXCEPT ![u].pc = sec]
  /\ mu' = u
  /\ UNCHANGED << torrents, clClosed, panicked >>
  /\ ApiUnchanged

\* Where AddTorrentSpec goes after AddTorrentInfoHash and SetDisplayName.
afterAdd(f) ==
  IF f.pc = "AddTorrentInfoHash" /\ f.spec.DisplayName # ""
  THEN [f EXCEPT !.pc = "lock:SetDisplayName"]
  ELSE IF f.spec.Info # "" THEN [f EXCEPT !.pc = "lock:SetInfoBytes"]
  ELSE [f EXCEPT !.pc = "lock:addTrackers"]

\* A critical section of AddTorrentSpec, up to its Unlock.
AddStep(u) ==
  /\ panicked = ""
  /\ mu = u
  /\ LET f == call[u] IN
     CASE f.pc = "AddTorrentInfoHash" ->
            LET a == AddTorrentInfoHash(torrents, f.ih) IN
            /\ a.new => torrents[f.ih].gen < MaxAdds
            /\ torrents' = a.ts
            /\ call' = [call EXCEPT ![u] =
                 afterAdd([f EXCEPT !.new = a.new, !.gen = a.ts[f.ih].gen])]
       [] f.pc = "SetDisplayName" ->
            /\ torrents' = SetDisplayName(torrents, f.ih, f.gen, f.spec.DisplayName)
            /\ call' = [call EXCEPT ![u] = afterAdd(f)]
       [] f.pc = "SetInfoBytes" ->
            LET i == SetInfoBytes(torrents, f.ih, f.gen, f.spec.Info) IN
            /\ torrents' = i.ts
            /\ call' = [call EXCEPT ![u] =
                 IF i.err # "" THEN [f EXCEPT !.err = i.err, !.pc = "done"]
                 ELSE [f EXCEPT !.pc = "lock:addTrackers"]]
       [] f.pc = "addTrackers" ->
            /\ torrents' = addTrackers(torrents, f.ih, f.gen, f.spec)
            /\ call' = [call EXCEPT ![u].pc = "done"]
       [] OTHER -> FALSE
  /\ mu' = ""
  /\ UNCHANGED << clClosed, panicked >>
  /\ ApiUnchanged

\* What a read of the map that holds no lock can give for "present": the
\* truth while nobody holds the lock, anything while somebody does.
RacyReads(ih) == IF mu = "" THEN {torrents[ih].present} ELSE BOOLEAN

\* DropTorrent looks the info-hash up, without the lock; the runtime may end
\* the process when it sees the map read while another task is in a section
\* that writes it.
DropTorrentRead(u, ok, fatal) ==
  /\ panicked = ""
  /\ call[u].pc = "DropTorrent"
  /\ ok \in RacyReads(call[u].ih)
  /\ fatal => mu # ""
  /\ panicked' = IF fatal THEN "concurrent map read and map write" ELSE ""
  /\ call' = [call EXCEPT ![u] =
       IF fatal THEN @
       ELSE IF ok THEN [@ EXCEPT !.ok = TRUE, !.pc = "lock:Drop"]
       ELSE IF @.todo # {}
       THEN LET next == CHOOSE h \in @.todo : TRUE
            IN [@ EXCEPT !.ih = next, !.todo = @ \ {next}]
       ELSE [@ EXCEPT !.pc = "done"]]
  /\ UNCHANGED << torrents, mu, clClosed >>
  /\ ApiUnchanged

\* Torrent.Drop: dropTorrent under the lock; DropAllTorrent goes on with the
\* next info-hash of its range.
Drop(u) ==
  /\ panicked = ""
  /\ mu = u
  /\ call[u].pc = "Drop"
  /\ LET d == dropTorrent(torrents, call[u].ih) IN
     /\ torrents' = d.ts
     /\ call' = [call EXCEPT ![u] =
          IF @.todo # {}
          THEN LET next == CHOOSE h \in @.todo : TRUE
               IN [@ EXCEPT !.ih = next, !.todo = @ \ {next}, !.err = d.err,
                            !.pc = "DropTorrent"]
          ELSE [@ EXCEPT !.err = d.err, !.pc = "done"]]
  /\ mu' = ""
  /\ UNCHANGED << clClosed, panicked >>
  /\ ApiUnchanged

\* DropAllTorrent ranges over the map, without the lock: the info-hashes it
\* will drop are those it sees.
DropAllTorrentRange(u, seen) ==
  /\ panicked = ""
  /\ call[u].pc = "DropAllTorrent"
  /\ \A ih \in Hashes : (ih \in seen) \in RacyReads(ih)
  /\ call' = [call EXCEPT ![u] =
       IF seen = {} THEN [@ EXCEPT !.pc = "done"]
       ELSE LET next == CHOOSE h \in seen : TRUE
            IN [@ EXCEPT !.ih = next, !.todo = seen \ {next}, !.pc = "DropTorrent"]]
  /\ UNCHANGED << torrents, mu, clClosed, panicked >>
  /\ ApiUnchanged

\* CheckExistsInfoHash, without the lock.
CheckExistsInfoHash(u, ok) ==
  /\ panicked = ""
  /\ call[u].pc = "CheckExistsInfoHash"
  /\ ok \in RacyReads(call[u].ih)
  /\ call' = [call EXCEPT ![u].ok = ok, ![u].pc = "done"]
  /\ UNCHANGED << torrents, mu, clClosed, panicked >>
  /\ ApiUnchanged

\* Client.Torrent, between Lock and Unlock.
Torrent(u) ==
  /\ panicked = ""
  /\ mu = u
  /\ call[u].pc = "Torrent"
  /\ call' = [call EXCEPT ![u].ok = torrents[call[u].ih].present, ![u].pc = "done"]
  /\ mu' = ""
  /\ UNCHANGED << torrents, clClosed, panicked >>
  /\ ApiUnchanged

\* WaitAll with the lock: the test of the loop, then a return or event.Wait,
\* which gives the lock up.
WaitAll(u) ==
  /\ panicked = ""
  /\ mu = u
  /\ call[u].pc = "WaitAll"
  /\ call' = [call EXCEPT ![u] =
       IF allTorrentsCompleted(torrents) THEN [@ EXCEPT !.ret = TRUE, !.pc = "done"]
       ELSE IF clClosed THEN [@ EXCEPT !.ret = FALSE, !.pc = "done"]
       ELSE [@ EXCEPT !.pc = "event.Wait"]]
  /\ mu' = ""
  /\ UNCHANGED << torrents, clClosed, panicked >>
  /\ ApiUnchanged

\* Whether some torrent can want connections: it is in cl.torrents and is
\* not complete.  Whether it does want them depends on its connections.
mayWantConns(ts) ==
  \E ih \in Hashes :
    ts[ih].present /\ ~(ts[ih].info # "" /\ ts[ih].completed = NumPieces)

\* waitAccept with the lock: the tests of the loop, then a return or
\* event.Wait, which gives the lock up.  want is the outcome of the loop over
\* cl.torrents.
WaitAcceptTest(u, want) ==
  /\ panicked = ""
  /\ mu = u
  /\ call[u].pc = "waitAccept"
  /\ want => mayWantConns(torrents)
  /\ call' = [call EXCEPT ![u].pc =
       IF want \/ clClosed THEN "done" ELSE "event.Wait"]
  /\ mu' = ""
  /\ UNCHANGED << torrents, clClosed, panicked >>
  /\ ApiUnchanged

\* Client.Close, between Lock and Unlock.
ClientClose(u) ==
  /\ panicked = ""
  /\ mu = u
  /\ call[u].pc = "Close"
  /\ clClosed' = TRUE
  /\ call' = Broadcast([call EXCEPT ![u].pc = "done"])
  /\ mu' = ""
  /\ UNCHANGED << torrents, panicked >>
  /\ ApiUnchanged

\* pieceChanged of a torrent that has its info: a piece became complete or
\* stopped being so, and the event is broadcast.
PieceChanged(ih, correct) ==
  /\ panicked = ""
  /\ mu = ""
  /\ torrents[ih].present /\ torrents[ih].info # ""
  /\ IF correct THEN torrents[ih].completed < NumPieces
     ELSE torrents[ih].completed > 0
  /\ torrents' = [torrents EXCEPT ![ih].completed =
                    IF correct THEN @ + 1 ELSE @ - 1]
  /\ call' = Broadcast(call)
  /\ UNCHANGED << mu, clClosed, panicked >>
  /\ ApiUnchanged

\* ----------------------------------------------------------- ut_metadata
\* The size of a metadata piece: 16 KiB, the last one may be shorter.
metadataChunkSize == 16384

metadataPieceSize(totalSize, index) ==
  LET ret == totalSize - index * metadataChunkSize
  IN IF ret > metadataChunkSize THEN metadataChunkSize ELSE ret

requestedMetadataPiece(m, index) == index \in m.metadataRequests

haveMetadataPiece(m, index) ==
  index \in MetadataPieces /\ (m.haveInfo \/ m.metadataBytes[index] # "none")

saveMetadataPiece(m, index, data) ==
  IF m.haveInfo \/ index \notin MetadataPieces THEN m
  ELSE [m EXCEPT !.metadataBytes[index] = data]

\* With every piece stored the buffer is hashed: the info is known when the
\* hash is the info-hash, otherwise the buffer is cleared.
maybeMetadataCompleted(m) ==
  IF m.haveInfo \/ \E i \in MetadataPieces : m.metadataBytes[i] = "none" THEN m
  ELSE IF \A i \in MetadataPieces : m.metadataBytes[i] = "good"
  THEN [m EXCEPT !.haveInfo = TRUE]
  ELSE [m EXCEPT !.metadataBytes = [i \in MetadataPieces |-> "none"]]

\* Only an offset before the payload is refused.
badOffsetNegativeOnly(begin, len) == begin < 0

badOffset(begin, len) == begin < 0 \/ begin >= len

\* A message is its msg_type ("" when the dictionary has none, "garbage"
\* when the payload is no dictionary), piece and total_size, the length of
\* the payload and the bytes that follow the dictionary.
gotMetadataExtensionMsg(m, msg) ==
  IF msg.msgType = "garbage"
  THEN [m EXCEPT !.err = "error unmarshalling payload"]
  ELSE IF msg.msgType = "" THEN [m EXCEPT !.err = "missing msg_type field"]
  ELSE CASE msg.msgType = "data" ->
         IF ~requestedMetadataPiece(m, msg.piece)
         THEN [m EXCEPT !.err = "got unexpected piece"]
         ELSE LET m1 == [m EXCEPT !.metadataRequests = @ \ {msg.piece}]
                  begin == msg.len - metadataPieceSize(msg.totalSize, msg.piece)
              IN IF badOffset(begin, msg.len)
                 THEN [m1 EXCEPT !.err = "data has bad offset in payload"]
                 ELSE maybeMetadataCompleted(
                        [saveMetadataPiece(m1, msg.piece, msg.data) EXCEPT
                           !.UsefulChunksReceived = @ + 1])
       [] msg.msgType = "request" ->
         IF ~haveMetadataPiece(m, msg.piece) THEN [m EXCEPT !.posted = "reject"]
         ELSE [m EXCEPT !.posted = "data"]
       [] msg.msgType = "reject" -> m
       [] OTHER -> [m EXCEPT !.err = "unknown msg_type value"]

MetadataUnchanged ==
  UNCHANGED << conns, conn, halfOpen, peers, dialing, incoming, piece,
               complete, content, verifier, badPeerIPs, dopplegangerAddrs,
               duplicateClientConns, clClosed, panicked, hsVars, dfVars,
               apiVars, estVars, tmVars, acVars >>

\* requestPendingMetadata asks the peer for a piece that is missing.
RequestPendingMetadata(index) ==
  /\ md.err = "" /\ ~md.haveInfo
  /\ md.metadataBytes[index] = "none"
  /\ index \notin md.metadataRequests
  /\ md' = [md EXCEPT !.metadataRequests = @ \cup {index}]
  /\ MetadataUnchanged

\* The connection loop dispatches a ut_metadata message; an error ends it.
GotMetadataExtensionMsg(msg) ==
  /\ md.err = ""
  /\ md.UsefulChunksReceived < MaxUseful
  /\ md' = gotMetadataExtensionMsg(md, msg)
  /\ MetadataUnchanged

\* The failed connection is gone and another peer connects.
MetadataReconnect ==
  /\ md.err # ""
  /\ md' = [md EXCEPT !.err = "", !.metadataRequests = {}, !.posted = "",
                      !.UsefulChunksReceived = 0]
  /\ MetadataUnchanged

\* ---------------------------------------------------- reducedDialTimeout
\* Durations are counted in seconds.  The floor of the dial timeout.
minDialTimeout == 5
nominalDialTimeout == 30

\* The largest arguments the calls are made with.
MaxTimeout == 30
MaxLimit == 3
MaxPending == 5

\* Go's / on integers truncates.
reducedDialTimeout(max, limit, pendingPeers) ==
  LET ret == max \div ((pendingPeers + limit) \div limit)
  IN IF ret < minDialTimeout THEN minDialTimeout ELSE ret

TimeoutUnchanged ==
  UNCHANGED << conns, conn, halfOpen, peers, dialing, incoming, piece,
               complete, content, verifier, badPeerIPs, dopplegangerAddrs,
               duplicateClientConns, clClosed, panicked, hsVars, dfVars,
               apiVars, estVars, mdVars, acVars >>

ReducedDialTimeout(max, limit, pendingPeers) ==
  /\ rdt' = [ called |-> TRUE, max |-> max, halfOpenLimit |-> limit,
              pendingPeers |-> pendingPeers,
              ret |-> reducedDialTimeout(max, limit, pendingPeers) ]
  /\ TimeoutUnchanged

\* dialTimeout: the nominal timeout, the client's limit, len(t.peers).
DialTimeout(pendingPeers) ==
  ReducedDialTimeout(nominalDialTimeout, halfOpenLimit, pendingPeers)

\* ------------------------------------------------- establishOutgoingConn
\* What mse.InitiateHandshake returns: nil, or an error, of which the
\* mismatch of the secret key is one.
MSEOutcomes == {"ok", "skey mismatch", "EOF"}

\* What connBTHandshake returns: ok with the torrent's info-hash, ok with
\* another info-hash, not ok without an error (the peer went away), or an
\* error.
BTOutcomes == {"ok", "wrong infohash", "closed", "EOF"}

initiateHandshakes(encrypted, mse, bt) ==
  IF encrypted /\ mse # "ok" THEN [ ok |-> FALSE, err |-> mse ]
  ELSE CASE bt = "ok" -> [ ok |-> TRUE, err |-> "" ]
         [] bt = "wrong infohash" -> [ ok |-> FALSE, err |-> "" ]
         [] bt = "closed" -> [ ok |-> FALSE, err |-> "" ]
         [] OTHER -> [ ok |-> FALSE, err |-> bt ]

\* The connection is << encrypted, uTP >>, and << >> is nil.
handshakesConnection(encrypted, utp, deadline, mse, bt) ==
  IF ~deadline THEN [ c |-> << encrypted, utp >>, err |-> "SetDeadline" ]
  ELSE LET h == initiateHandshakes(encrypted, mse, bt) IN
       [ c |-> IF h.ok THEN << encrypted, utp >> ELSE << >>, err |-> h.err ]

\* The handshakes one call of handshakesConnection went through.
attempt(encrypted, utp, deadline, mse, bt) ==
  [ encrypted |-> encrypted, utp |-> utp,
    mse |-> IF deadline /\ encrypted THEN mse ELSE "",
    bt |-> IF deadline /\ (~encrypted \/ mse = "ok") THEN bt ELSE "" ]

EstUnchanged ==
  UNCHANGED << conns, conn, halfOpen, peers, dialing, incoming, piece,
               complete, content, verifier, badPeerIPs, dopplegangerAddrs,
               duplicateClientConns, clClosed, panicked, hsVars, dfVars,
               apiVars, tmVars, mdVars, acVars >>

\* establishOutgoingConn up to the first handshakesConnection: dialFirst
\* returns the net.Conn of transport won, or nil (won = "").
EstablishOutgoingConn(disable, won) ==
  /\ est.pc = "idle"
  /\ est' = IF won = "" THEN [NoEstablish EXCEPT !.pc = "returned",
                                                 !.disable = disable]
            ELSE [NoEstablish EXCEPT !.pc = "handshakes", !.disable = disable,
                                     !.utp = (won = "utp"),
                                     !.ncs = << "open" >>]
  /\ EstUnchanged

\* nc.Close().
ncClose(e) == [e EXCEPT !.closed = @ + 1, !.ncs[Len(e.ncs)] = "closed"]

\* The first handshakesConnection and what follows it up to the second dial.
firstHandshakes(e, deadline, mse, bt) ==
  LET h == handshakesConnection(~e.disable, e.utp, deadline, mse, bt)
      e1 == [e EXCEPT !.tried = Append(@, attempt(~e.disable, e.utp, deadline,
                                                  mse, bt)),
                      !.c = h.c, !.err = h.err]
  IN IF h.err # "" THEN [ncClose(e1) EXCEPT !.pc = "returned"]
     ELSE IF h.c # << >> THEN [e1 EXCEPT !.pc = "returned"]
     ELSE IF e.disable THEN [ncClose(e1) EXCEPT !.pc = "returned"]
     ELSE [ncClose(e1) EXCEPT !.pc = "redial"]

FirstHandshakes(deadline, mse, bt) ==
  /\ est.pc = "handshakes"
  /\ est' = firstHandshakes(est, deadline, mse, bt)
  /\ EstUnchanged

\* The second dial, on the transport that worked the first time.
Redial(ok) ==
  /\ est.pc = "redial"
  /\ est' = IF ok
            THEN [est EXCEPT !.redialed = IF est.utp THEN "utp" ELSE "tcp",
                             !.ncs = Append(@, "open"),
                             !.pc = "handshakes again"]
            ELSE [est EXCEPT !.redialed = IF est.utp THEN "utp" ELSE "tcp",
                             !.err = "error dialing for unencrypted connection",
                             !.pc = "returned"]
  /\ EstUnchanged

\* The second handshakesConnection with nc.Close() only after an error.
secondHandshakesCloseOnError(e, deadline, bt) ==
  LET h == handshakesConnection(FALSE, e.utp, deadline, "ok", bt)
      e1 == [e EXCEPT !.tried = Append(@, attempt(FALSE, e.utp, deadline,
                                                  "ok", bt)),
                      !.c = h.c, !.err = h.err, !.pc = "returned"]
  IN IF h.err # "" THEN ncClose(e1) ELSE e1

\* The second handshakesConnection, without encryption, and the return.
secondHandshakes(e, deadline, bt) ==
  LET h == handshakesConnection(FALSE, e.utp, deadline, "ok", bt)
      e1 == [e EXCEPT !.tried = Append(@, attempt(FALSE, e.utp, deadline,
                                                  "ok", bt)),
                      !.c = h.c, !.err = h.err, !.pc = "returned"]
  IN IF h.err # "" \/ h.c = << >> THEN ncClose(e1) ELSE e1

SecondHandshakes(deadline, bt) ==
  /\ est.pc = "handshakes again"
  /\ est' = secondHandshakes(est, deadline, bt)
  /\ EstUnchanged

\* The caller has the results; the next address is tried.
EstablishReturned ==
  /\ est.pc = "returned"
  /\ est' = NoEstablish
  /\ EstUnchanged

\* ------------------------------------------------------ specifications
\* The remote clients that connect to us: two behind the same IP address.
\* A client presents the peer-id PidOf of its address.
InAddrs == {a \in Addrs : a.ip = "ip1"}
PidOf(a) == IF a.port = 1 THEN "p1" ELSE "p2"

\* The verifier goroutines.
Verify ==
  \/ \E p \in Pieces : VerifyPieceWait(p)
  \/ \E p \in Pieces : VerifyPieceBegin(p)
  \/ \E p \in Pieces : HashPiece(p)
  \/ \E p \in Pieces, correct \in BOOLEAN, ord \in Orders(peers) :
       VerifyPieceEnd(p, correct, ord)

\* The piece lifecycle: two remote clients connect to us and send chunks of
\* piece 0 (unrequested, which downloadedChunk accepts); a first hash of the
\* piece is asked for at any time; the verifier checks it.
Next ==
  \/ \E a \in InAddrs : AcceptConnection(a)
  \/ \E a \in InAddrs : \E pid \in {PidOf(a), ""} : ReceivedConn(a, pid)
  \/ \E c \in Slots, ord \in Orders(peers) : LoopExit(c, ord)
  \/ \E c \in Slots, r \in AllRequests, data \in Data :
       r[1] = 0 /\ wantPiece(St, r) /\ MsgPiece(c, r, data)
  \/ \E c \in Slots, ok \in BOOLEAN : WriteChunk(c, ok)
  \/ QueueFirstHash(0)
  \/ Verify

Spec == Init /\ [][Next]_vars

\* Connection admission: discovery feeds addresses, dials finish with any
\* outcome, the remote clients announce their pieces and hang up.  The
\* address on the other IP leads to a third client or, again, to the first.
WireAddrs == {a \in InAddrs : a.port = 1}
DialPids(a) == IF a.ip = "ip1" THEN {PidOf(a)} ELSE {"p1", "p3"}

NextConns ==
  \/ \E a \in Addrs : \E ord \in Orders(peers \cup {a}) : AddPeers(a, ord)
  \/ \E a \in Addrs : \E pid \in DialPids(a) \cup {OwnPeerID, ""}, ord \in Orders(peers) :
       OutgoingConnection(a, pid, ord)
  \/ \E c \in Slots, ord \in Orders(peers) : LoopExit(c, ord)
  \/ \E c \in Slots : MsgHaveAll(c)
  \/ \E a \in WireAddrs : AcceptConnection(a)
  \/ \E a \in WireAddrs : ReceivedConn(a, OwnPeerID)

SpecConns == Init /\ [][NextConns]_vars

\* The wire protocol of one established connection: both directions of
\* choking, interest, requests and chunks, the chunks being those of the last
\* piece.
LastPiece == NumPieces - 1

NextWire ==
  \/ \E a \in WireAddrs : AcceptConnection(a)
  \/ \E a \in WireAddrs : ReceivedConn(a, PidOf(a))
  \/ \E c \in Slots, ord \in Orders(peers) : LoopExit(c, ord)
  \/ \E c \in Slots : MsgChoke(c)
  \/ \E c \in Slots : MsgUnchoke(c)
  \/ \E c \in Slots, r \in AllRequests : MsgReject(c, r)
  \/ \E c \in Slots : MsgHaveAll(c)
  \/ \E c \in Slots : MsgHaveNone(c)
  \/ \E c \in Slots : MsgInterested(c)
  \/ \E c \in Slots : MsgNotInterested(c)
  \/ \E c \in Slots, r \in AllRequests \cup ZeroRequests, ord \in Orders(peers) :
       MsgRequest(c, r, ord)
  \/ \E c \in Slots, r \in AllRequests : MsgCancel(c, r)
  \/ \E c \in Slots, r \in AllRequests \cup LongPieces \cup BadIndexPieces :
       r[1] >= LastPiece /\ MsgPiece(c, r, "good")
  \/ \E c \in Slots, ok \in BOOLEAN : WriteChunk(c, ok)
  \/ QueueFirstHash(LastPiece)
  \/ Verify

SpecWire == Init /\ [][NextWire]_vars

\* The handshake of one connection after another, as initiator and as
\* receiver, against every reply and every progress of the writer.
NextHandshake ==
  \/ \E ih \in {"", InfoHash} : Handshake(ih)
  \/ Post
  \/ \E b \in Replies : ReadReply(b)
  \/ Deferred
  \/ WaitWriteDone
  \/ \E written \in BOOLEAN : WriterWrite(written)
  \/ WriterEnd
  \/ HandshakeReturned

SpecHandshake == Init /\ [][NextHandshake]_vars

\* dialFirst for one address after another, under every configuration of
\* the transports and every outcome and order of the dials.
DoDialAny == \E tr \in Transports, outcome \in DialOutcomes : DoDial(tr, outcome)

NextDial ==
  \/ \E disableUTP, disableTCP \in BOOLEAN : DialFirst(disableUTP, disableTCP)
  \/ DoDialAny
  \/ DialFirstReceive
  \/ Drain
  \/ DialFirstReturned

SpecDial == Init /\ [][NextDial]_vars

\* A dial returns within its timeout, and a goroutine that can receive does.
SpecDialLive ==
  /\ Init /\ [][NextDial]_vars
  /\ WF_vars(DoDialAny) /\ WF_vars(DialFirstReceive) /\ WF_vars(Drain)

\* Two callers add torrent specs, each any number of times.
NextAdd ==
  \/ \E u \in Callers, spec \in Specs :
       Call(u, "AddTorrentSpec", spec.InfoHash, spec)
  \/ \E u \in Callers : Lock(u)
  \/ \E u \in Callers : AddStep(u)

SpecAdd == Init /\ [][NextAdd]_vars

\* One caller waits for the torrents to complete while the other adds
\* torrents and closes the client, and pieces become complete or fail.
NextWait ==
  \/ \E spec \in Specs : Call("u2", "AddTorrentSpec", spec.InfoHash, spec)
  \/ Call("u1", "WaitAll", "", NoSpec)
  \/ Call("u2", "Close", "", NoSpec)
  \/ \E u \in Callers : Lock(u)
  \/ \E u \in Callers : AddStep(u)
  \/ \E u \in Callers : WaitAll(u)
  \/ \E u \in Callers : ClientClose(u)
  \/ \E ih \in Hashes, correct \in BOOLEAN : PieceChanged(ih, correct)

SpecWait == Init /\ [][NextWait]_vars

\* A caller of WaitAll and the accept loop wait on cl.event while a third
\* task adds a torrent and closes the client, and pieces become complete.
NextWaiters ==
  \/ Call("u1", "WaitAll", "", NoSpec)
  \/ Call("u3", "waitAccept", "", NoSpec)
  \/ \E spec \in Specs : spec.InfoHash = "h1" /\ Call("u2", "AddTorrentSpec", "h1", spec)
  \/ Call("u2", "Close", "", NoSpec)
  \/ \E u \in Callers : Lock(u)
  \/ \E u \in Callers : AddStep(u)
  \/ \E u \in Callers : WaitAll(u)
  \/ \E u \in Callers, want \in BOOLEAN : WaitAcceptTest(u, want)
  \/ \E u \in Callers : ClientClose(u)
  \/ \E ih \in Hashes : PieceChanged(ih, TRUE)

SpecWaiters == Init /\ [][NextWaiters]_vars

\* Fair scheduling: a task that can run does, and a task that goes for the
\* lock gets it when it is free again and again.
SpecWaitersLive ==
  /\ SpecWaiters
  /\ \A u \in Callers :
       /\ SF_vars(Lock(u))
       /\ WF_vars(AddStep(u))
       /\ WF_vars(WaitAll(u))
       /\ WF_vars(\E want \in BOOLEAN : WaitAcceptTest(u, want))
       /\ WF_vars(ClientClose(u))

\* One caller adds torrents while the other drops them and looks them up.
NextLock ==
  \/ \E spec \in Specs : Call("u1", "AddTorrentSpec", spec.InfoHash, spec)
  \/ \E ih \in Hashes, op \in {"DropTorrent", "CheckExistsInfoHash", "Torrent"} :
       Call("u2", op, ih, NoSpec)
  \/ Call("u2", "DropAllTorrent", "", NoSpec)
  \/ \E u \in Callers : Lock(u)
  \/ \E u \in Callers : AddStep(u)
  \/ \E u \in Callers, ok, fatal \in BOOLEAN : DropTorrentRead(u, ok, fatal)
  \/ \E u \in Callers : Drop(u)
  \/ \E u \in Callers, seen \in SUBSET Hashes : DropAllTorrentRange(u, seen)
  \/ \E u \in Callers, ok \in BOOLEAN : CheckExistsInfoHash(u, ok)
  \/ \E u \in Callers : Torrent(u)

SpecLock == Init /\ [][NextLock]_vars

\* Two peers that are asked for the same chunks, and the arrival of those
\* chunks.
NextCancel ==
  \/ \E a \in InAddrs : AcceptConnection(a)
  \/ \E a \in InAddrs : ReceivedConn(a, PidOf(a))
  \/ \E c \in Slots, ord \in Orders(peers) : LoopExit(c, ord)
  \/ \E c \in Slots : MsgUnchoke(c)
  \/ \E c \in Slots : MsgHaveAll(c)
  \/ \E c \in Slots, r \in AllRequests :
       r[1] = 0 /\ wantPiece(St, r) /\ MsgPiece(c, r, "good")
  \/ \E c \in Slots : WriteChunk(c, TRUE)

SpecCancel == Init /\ [][NextCancel]_vars

\* One peer that asks for chunks of pieces the client has, over storage
\* that can lose a chunk or fail to read it.
NextUpload ==
  \/ \E a \in WireAddrs : AcceptConnection(a)
  \/ \E a \in WireAddrs : ReceivedConn(a, PidOf(a))
  \/ \E c \in Slots, ord \in Orders(peers) : LoopExit(c, ord)
  \/ \E c \in Slots : MsgInterested(c)
  \/ \E c \in Slots, r \in AllRequests, ord \in Orders(peers) :
       MsgRequest(c, r, ord)
  \/ \E p \in Pieces : \E ch \in Chunks(p), how \in {"none", "unreadable"} :
       StorageFault(p, ch, how)
  \/ \E p \in Pieces : QueueFirstHash(p)
  \/ \E p \in Pieces : VerifyPieceBegin(p)
  \/ \E p \in Pieces : HashPiece(p)
  \/ \E p \in Pieces, correct \in BOOLEAN, ord \in Orders(peers) :
       VerifyPieceEnd(p, correct, ord)

SpecUpload == Init /\ [][NextUpload]_vars

\* Outgoing connection attempts, one after another, under both settings of
\* DisableEncryption and every outcome of the dials and handshakes.
NextEstablish ==
  \/ \E disable \in BOOLEAN, won \in Transports \cup {""} :
       EstablishOutgoingConn(disable, won)
  \/ \E deadline \in BOOLEAN, mse \in MSEOutcomes, bt \in BTOutcomes :
       FirstHandshakes(deadline, mse, bt)
  \/ \E ok \in BOOLEAN : Redial(ok)
  \/ \E deadline \in BOOLEAN, bt \in BTOutcomes : SecondHandshakes(deadline, bt)
  \/ EstablishReturned

SpecEstablish == Init /\ [][NextEstablish]_vars

\* reducedDialTimeout under every argument up to the bounds, dialTimeout
\* under every number of pending peers.
NextTimeout ==
  \/ \E max \in 1..MaxTimeout, limit \in 1..MaxLimit, n \in 0..MaxPending :
       ReducedDialTimeout(max, limit, n)
  \/ \E n \in 0..MaxPending : DialTimeout(n)

SpecTimeout == Init /\ [][NextTimeout]_vars

\* Two peers, one of which asks for a piece the client does not have.
NextError ==
  \/ \E a \in InAddrs : AcceptConnection(a)
  \/ \E a \in InAddrs : ReceivedConn(a, PidOf(a))
  \/ \E c \in Slots, ord \in Orders(peers) : LoopExit(c, ord)
  \/ \E c \in Slots : MsgHaveAll(c)
  \/ \E c \in Slots : MsgInterested(c)
  \/ \E c \in Slots : MsgNotInterested(c)
  \/ \E c \in Slots : MsgChoke(c)
  \/ \E c \in Slots : MsgUnchoke(c)
  \/ \E c \in Slots, r \in AllRequests, ord \in Orders(peers) :
       MsgRequest(c, r, ord)

SpecError == Init /\ [][NextError]_vars

\* The client is closed while peers connect in both directions and the
\* accept loop is anywhere in its iteration.
NextClose ==
  \/ \E a \in InAddrs : \E ord \in Orders(peers \cup {a}) : AddPeers(a, ord)
  \/ \E a \in InAddrs : \E pid \in {PidOf(a), ""}, ord \in Orders(peers) :
       OutgoingConnection(a, pid, ord)
  \/ WaitAccept
  \/ \E a \in InAddrs, ok \in BOOLEAN : Accept(a, ok)
  \/ AcceptHandOff
  \/ \E a \in InAddrs : ReceivedConn(a, PidOf(a))
  \/ \E c \in Slots, ord \in Orders(peers) : LoopExit(c, ord)
  \/ \E c \in Slots : MsgInterested(c)
  \/ CloseClient

SpecClose == Init /\ [][NextClose]_vars

\* Addresses no connection is wanted with from the start: port zero, and an
\* IP of the blocklist.
BadAddrs == { [ip |-> "ip3", port |-> 0], [ip |-> "ip4", port |-> 1] }

\* The peers initiateConn is called with: every address, and an address
\* announced with the client's own peer-id.
Candidates ==
  Addrs \cup BadAddrs \cup {[ip |-> "ip1", port |-> 2, Id |-> OwnPeerID]}

\* Connections in both directions with addresses that are bad from the
\* start, that turn out to be the client itself, or that are banned after a
\* bad piece.
NextAdmit ==
  \/ \E a \in InAddrs \cup BadAddrs : AcceptConnection(a)
  \/ \E a \in InAddrs : ReceivedConn(a, PidOf(a))
  \/ \E p \in Candidates : InitiateConn(p)
  \/ \E a \in Addrs : \E pid \in {OwnPeerID, ""}, ord \in Orders(peers) :
       OutgoingConnection(a, pid, ord)
  \/ \E c \in Slots, ord \in Orders(peers) : LoopExit(c, ord)
  \/ \E c \in Slots, r \in AllRequests :
       r[1] = LastPiece /\ wantPiece(St, r) /\ MsgPiece(c, r, "bad")
  \/ \E c \in Slots : WriteChunk(c, TRUE)
  \/ \E p \in Pieces : VerifyPieceBegin(p)
  \/ \E p \in Pieces : HashPiece(p)
  \/ \E p \in Pieces, correct \in BOOLEAN, ord \in Orders(peers) :
       VerifyPieceEnd(p, correct, ord)

SpecAdmit == Init /\ [][NextAdmit]_vars

\* The ut_metadata messages a peer can send: of every type, for pieces the
\* torrent has and has not, with sizes and payload lengths on both sides of
\* every test.
MetadataMsgs ==
  [ msgType : {"data", "request", "reject", "unknown", "", "garbage"},
    piece : {-1, 0, 1, 2},
    totalSize : {-5, 0, 16484},
    len : {0, 50, 150, 16434},
    data : {"good", "bad"} ]

NextMetadata ==
  \/ \E index \in MetadataPieces : RequestPendingMetadata(index)
  \/ \E msg \in MetadataMsgs : GotMetadataExtensionMsg(msg)
  \/ MetadataReconnect

SpecMetadata == Init /\ [][NextMetadata]_vars

\* Piece verification with one peer: the verifier goroutines, the chunk
\* writes they wait for and the arrivals that queue further checks.
\* The pieces whose chunks arrive and whose checks are queued.
Verified == {0}

NextVerify ==
  \/ \E a \in WireAddrs : AcceptConnection(a)
  \/ \E a \in WireAddrs : ReceivedConn(a, PidOf(a))
  \/ \E c \in Slots, ord \in Orders(peers) : LoopExit(c, ord)
  \/ \E c \in Slots, r \in AllRequests, data \in Data :
       r[1] \in Verified /\ wantPiece(St, r) /\ MsgPiece(c, r, data)
  \/ \E c \in Slots, ok \in BOOLEAN : WriteChunk(c, ok)
  \/ \E p \in Verified : QueueFirstHash(p)
  \/ Verify

SpecVerify == Init /\ [][NextVerify]_vars

\* Every goroutine that can run does run: the verifiers, the storage
\* writes a verifier waits for, and the exit of a closed connection's loop.
SpecVerifyLive ==
  /\ SpecVerify
  /\ \A p \in Verified : WF_vars(VerifyPieceBegin(p))
  /\ \A p \in Verified : WF_vars(HashPiece(p))
  /\ \A p \in Verified :
       WF_vars(\E correct \in BOOLEAN, ord \in Orders(peers) :
                 VerifyPieceEnd(p, correct, ord))
  /\ WF_vars(\E c \in Slots, ok \in BOOLEAN : WriteChunk(c, ok))
  /\ WF_vars(\E c \in Slots, ord \in Orders(peers) : LoopExit(c, ord))


NoDuplicatePeerID ==
  \A c, d \in conns : conn[c].PeerID = conn[d].PeerID => c = d

DuplicateRefused ==
  duplicateClientConns' # duplicateClientConns =>
    /\ duplicateClientConns' = duplicateClientConns + 1
    /\ conns' = conns

C2_NoDuplicatePeerID == []NoDuplicatePeerID /\ [][DuplicateRefused]_vars

\* A duplicate was refused while the first connection of that peer-id is on
\* the list.
C2_Witness ==
  /\ duplicateClientConns > 0
  /\ \E c \in conns : conn[c].PeerID = "p1"

\* C3: the peer-requests of a connection are empty whenever we choke it.
C3_ChokedNoPeerRequests ==
  \A c \in Slots : conn[c].Choked => conn[c].PeerRequests = {}

\* A connection we served chunks to and then choked again.
C3_Witness ==
  \E c \in conns : conn[c].Choked /\ conn[c].chunksSent > 0

\* C4: every outstanding request of every connection of t.conns refers to a
\* piece that is not complete.
C4_RequestsIncomplete ==
  \A c \in conns : \A r \in conn[c].Requests : ~complete[r[1]]

\* A piece is complete while a connection whose peer has every piece, and
\* does not choke us, still has requests outstanding (for other pieces).
C4_Witness ==
  \E p \in Pieces, c \in conns :
    /\ complete[p]
    /\ conn[c].peerHasAll /\ ~conn[c].PeerChoked
    /\ conn[c].Requests # {}

\* C5: t.conns never exceeds socketsPerTorrent, the panic of addConnection
\* is never reached, and a step taken at the cap either adds nothing or
\* replaces exactly one connection by the new one.
ConnsWithinCap ==
  Cardinality(conns) <= socketsPerTorrent /\ panicked # "addConnection"

EvictOneOrRefuse ==
  Cardinality(conns) = socketsPerTorrent =>
    \/ conns' \subseteq conns
    \/ Cardinality(conns \ conns') = 1 /\ Cardinality(conns' \ conns) = 1

C5_ConnsWithinCap == []ConnsWithinCap /\ [][EvictOneOrRefuse]_vars

\* The list is at the cap right after an eviction: the evicted connection is
\* closed and off the list, its task not yet returned.
C5_Witness ==
  /\ Cardinality(conns) = socketsPerTorrent
  /\ \E c \in Slots : Zombie(c) /\ c \notin conns

\* C6: t.halfOpen never exceeds the half-open limit.
C6_HalfOpenWithinLimit == Cardinality(halfOpen) <= halfOpenLimit

\* The limit is reached and holds a known peer back.
C6_Witness == Cardinality(halfOpen) = halfOpenLimit /\ peers # {}

\* The step in which a verifier returns from hashing piece p.
Checked(p) == piece[p].Hashing /\ ~piece'[p].Hashing
FailedCheck(p) == Checked(p) /\ ~complete'[p]

TouchersPunished(p) ==
  \A c \in Touchers(St, p) :
    /\ conn'[c].badPiecesDirtied = conn[c].badPiecesDirtied + 1
    /\ remoteAddr(c).ip \in badPeerIPs'
    /\ c \notin conns'

\* C7 as stated: a failed check punishes every toucher and returns all the
\* chunks of the piece to the pending pool.
C7_AllChunksPended ==
  [][\A p \in Pieces :
       FailedCheck(p) => TouchersPunished(p) /\ piece'[p].dirty = {}]_vars

\* C7: a failed check punishes every toucher (bad-dirtied counter, IP ban,
\* drop), and returns the chunks of the piece to the pending pool when all
\* of them were dirty.
C7_FailedPiece ==
  [][\A p \in Pieces :
       FailedCheck(p) =>
         /\ TouchersPunished(p)
         /\ pieceAllDirty(St, p) => piece'[p].dirty = {}]_vars

\* A toucher was punished and the chunks of the piece are pending again.
C7_Witness ==
  \E c \in Slots, p \in Pieces :
    /\ conn[c].badPiecesDirtied > 0 /\ c \notin conns
    /\ remoteAddr(c).ip \in badPeerIPs
    /\ piece[p].EverHashed /\ ~complete[p] /\ piece[p].dirty = {}
    /\ content[p] # [ch \in Chunks(p) |-> "none"]

\* C8: no connection of t.conns has a remote IP that is banned.
C8_NoBannedConn ==
  \A c \in conns : remoteAddr(c).ip \notin badPeerIPs

\* The check of a piece that was never hashed before.
FirstCheck(p) == Checked(p) /\ ~piece[p].EverHashed

\* C9 as stated: the first check of a piece changes no counter, bans no IP
\* and drops no connection.
C9_FirstCheckUnscored ==
  [][\A p \in Pieces :
       FirstCheck(p) =>
         /\ \A c \in Slots :
              /\ conn'[c].goodPiecesDirtied = conn[c].goodPiecesDirtied
              /\ conn'[c].badPiecesDirtied = conn[c].badPiecesDirtied
         /\ badPeerIPs' = badPeerIPs
         /\ conns' = conns]_vars

\* C9: the first check of a piece scores its touchers as any check does; it
\* changes no counter, bans no IP and drops no connection when no
\* connection touched the piece.
C9_FirstCheck ==
  [][\A p \in Pieces :
       FirstCheck(p) =>
         /\ \A c \in Touchers(St, p) :
              IF complete'[p]
              THEN conn'[c].goodPiecesDirtied = conn[c].goodPiecesDirtied + 1
              ELSE /\ conn'[c].badPiecesDirtied = conn[c].badPiecesDirtied + 1
                   /\ remoteAddr(c).ip \in badPeerIPs'
                   /\ c \notin conns'
         /\ \A c \in Slots \ Touchers(St, p) :
              /\ conn'[c].goodPiecesDirtied = conn[c].goodPiecesDirtied
              /\ conn'[c].badPiecesDirtied = conn[c].badPiecesDirtied
         /\ Touchers(St, p) = {} => badPeerIPs' = badPeerIPs /\ conns' = conns]_vars

\* A first check credited the connection that delivered the piece.
C9_Witness ==
  \E c \in conns, p \in Pieces :
    /\ conn[c].goodPiecesDirtied > 0 /\ conn[c].UsefulChunksReceived = NumChunks(p)
    /\ complete[p] /\ piece[p].pendingWrites = 0

\* C10 as stated: Hashing and QueuedForHash are never both true.
C10_NeverBoth ==
  \A p \in Pieces : ~(piece[p].Hashing /\ piece[p].QueuedForHash)

\* C10: QueuedForHash is true exactly while a verifier waits to start on the
\* piece, and the verifier that starts hashing has cleared it.
QueuedIffWaiting ==
  \A p \in Pieces : piece[p].QueuedForHash <=> verifier[p].queued = 1

StartClearsQueued ==
  \A p \in Pieces :
    ~piece[p].Hashing /\ piece'[p].Hashing => ~piece'[p].QueuedForHash

C10_StartClearsQueued == []QueuedIffWaiting /\ [][StartClearsQueued]_vars

\* A write that was in flight queued another check while a verifier hashes.
C10_Witness ==
  \E p \in Pieces :
    piece[p].Hashing /\ piece[p].QueuedForHash /\ piece[p].pendingWrites = 0

\* C11: while the torrent is not seeding, a connection has been sent at most
\* uploadWindow chunks more than it delivered useful ones, and a connection
\* that has used up that window is choked.
C11_UploadWindow ==
  ~seeding(St) =>
    \A c \in Slots :
      /\ conn[c].chunksSent <= conn[c].UsefulChunksReceived + uploadWindow
      /\ conn[c].chunksSent = conn[c].UsefulChunksReceived + uploadWindow
           => conn[c].Choked

\* A peer that uploaded nothing useful was sent exactly uploadWindow chunks
\* and is choked.
C11_Witness ==
  /\ ~seeding(St)
  /\ \E c \in conns :
       /\ conn[c].UsefulChunksReceived = 0 /\ conn[c].chunksSent = uploadWindow
       /\ conn[c].Choked /\ conn[c].PeerInterested

\* The connection c is off the list and its task has returned.
Terminated(S, c) == c \notin S.conns /\ S.conn[c].phase = "free"

\* C12 as stated: a Request on a connection we choke, or from a peer that is
\* not interested, terminates the connection.
C12_RequestRejected ==
  \A c \in Slots, r \in AllRequests, ord \in Orders(peers) :
    Running(c) /\ (conn[c].Choked \/ ~conn[c].PeerInterested) =>
      Terminated(msgRequest(St, c, r, ord), c)

\* C12: a Request on a connection we choke changes nothing: no error, nothing
\* queued, the connection stays; and a peer that is not interested is always
\* choked, so that its Request is ignored as well.
C12_RequestIgnored ==
  \A c \in Slots :
    /\ ~conn[c].PeerInterested => conn[c].Choked
    /\ \A r \in AllRequests, ord \in Orders(peers) :
         Running(c) /\ conn[c].Choked => msgRequest(St, c, r, ord) = St

\* We choke an interested peer that could ask for a piece we have.
C12_Witness ==
  \E c \in conns, p \in Pieces :
    /\ Running(c) /\ conn[c].Choked /\ conn[c].PeerInterested
    /\ havePiece(St, p) /\ ~seeding(St) /\ conn[c].chunksSent = 0

\* The peer of c is unchoked and interested and we do not have piece p.
AsksMissing(c, p) ==
  /\ Running(c) /\ ~conn[c].Choked /\ conn[c].PeerInterested
  /\ ~havePiece(St, p)

\* C13 as stated: a Request of an unchoked, interested peer for a piece we do
\* not have queues nothing and leaves the connection running.
C13_MissingDropped ==
  \A c \in Slots, r \in AllRequests, ord \in Orders(peers) :
    AsksMissing(c, r[1]) =>
      LET T == msgRequest(St, c, r, ord) IN
      /\ c \in T.conns /\ T.conn[c].phase = "loop"
      /\ T.conn[c].PeerRequests = conn[c].PeerRequests

\* C13: a Request of an unchoked, interested peer for a piece we do not have
\* fails the connection: it is dropped from the torrent, with nothing sent.
C13_MissingFails ==
  \A c \in Slots, r \in AllRequests, ord \in Orders(peers) :
    AsksMissing(c, r[1]) =>
      LET T == msgRequest(St, c, r, ord) IN
      /\ Terminated(T, c)
      /\ T.conn[c].chunksSent = 0

\* A peer can ask for a piece we lack while it is served one we have.
C13_Witness ==
  \E c \in conns, p, q \in Pieces :
    AsksMissing(c, p) /\ havePiece(St, q) /\ conn[c].chunksSent > 0

\* C14: a Request of length 0 is never left in peer-requests and never
\* answered with a Piece message.
C14_ZeroLengthUnanswered ==
  \A c \in Slots, r \in ZeroRequests, ord \in Orders(peers) :
    Running(c) =>
      LET T == msgRequest(St, c, r, ord) IN
      /\ r \notin T.conn[c].PeerRequests
      /\ T.conn[c].chunksSent <= conn[c].chunksSent

\* C15: a Piece message that runs past the end of its piece, or names a
\* piece the torrent does not have, ends the connection (and nothing else)
\* and changes no piece state.
C15_BadPieceFails ==
  \A c \in Slots, r \in LongPieces \cup BadIndexPieces, data \in Data :
    Running(c) =>
      LET T == downloadedChunk(St, c, r, data) IN
      /\ T.panicked = ""
      /\ T.conn[c].phase \notin {"loop", "write"}
      /\ T.piece = piece

\* The peer's handshake could not be used: it was cut short, or it does not
\* open with the protocol header.
Unusable(b) == b.read = "short" \/ (b.read = "full" /\ b.proto # Protocol)

\* C16: a handshake whose reply cannot be read in full, or whose protocol
\* header is not the expected one, returns ok = false with a nil error; ok is
\* true only with a nil error when the deferred function runs, so that its
\* panic on an error is never reached.
C16_SilentClose ==
  /\ (hsk.pc \in {"defer", "returned"} /\ Unusable(hsk.b))
       => (~hsk.ok /\ hsk.err = "")
  /\ (hsk.pc = "defer" /\ hsk.ok) => hsk.err = ""
  /\ panicked # "handshake"

\* A handshake has returned after a reply with a foreign protocol header.
C16_Witness ==
  /\ hsk.pc = "returned"
  /\ hsk.b.read = "full" /\ hsk.b.proto # Protocol
  /\ ~hsk.ok /\ hsk.err = ""

\* C17: posting never blocks: as initiator and as receiver a handshake posts
\* at most 4 buffers, the queue never holds more than its capacity of 4, and
\* the panic of post is never reached, wherever the writer is.
C17_PostNeverBlocks ==
  /\ hsk.posted <= postChCap
  /\ Len(postCh.buf) <= postChCap
  /\ hsk.posted + Len(hsk.todo) <= postChCap
  /\ panicked # "post"

\* A receiver has posted its 4 buffers and the writer has written none.
C17_Witness ==
  /\ hsk.ih = "" /\ hsk.posted = 4
  /\ Len(postCh.buf) = 4 /\ wrote = << >>

\* C18: a connection whose handshake gave our own peer-id is never added to
\* the torrent's connections, dialed or accepted; when it was dialed, its
\* remote address is recorded as a doppleganger.
C18_NoConnToSelf ==
  /\ \A c \in conns : conn[c].PeerID # OwnPeerID
  /\ \A a \in Addrs :
       LET out == runInitiatedHandshookConn(St, << a, "out" >>, OwnPeerID)
           in == runReceivedConn(St, << a, "in" >>, OwnPeerID)
       IN /\ out.conns = conns /\ a \in out.dopplegangerAddrs
          /\ in.conns = conns /\ in.dopplegangerAddrs = dopplegangerAddrs

\* A dial reached ourselves while the torrent has connections to others.
C18_Witness ==
  /\ dopplegangerAddrs # {}
  /\ conns # {}
  /\ \E a \in WireAddrs : incoming[a] > 0

\* The first successful result among those delivered, "" when there is none.
RECURSIVE FirstSuccess(_)
FirstSuccess(q) ==
  IF q = << >> THEN ""
  ELSE IF Head(q).Conn # "" THEN Head(q).Conn
  ELSE FirstSuccess(Tail(q))

\* C19: dialFirst starts one dial for every enabled transport; what it
\* returns is the first successful result that was delivered, and it returns
\* nil exactly when every dial it started has failed, which includes the case
\* that it started none.
C19_FirstSuccess ==
  /\ dfr.pc # "none" =>
       \A tr \in Transports : dial[tr] # "none" <=> tr \in enabled(dfr)
  /\ dfr.pc = "returned" =>
       /\ dfr.conn = FirstSuccess(dfr.sent)
       /\ dfr.conn # "" => (dfr.utp <=> dfr.conn = "utp")
       /\ dfr.conn = "" <=>
            /\ Len(dfr.sent) = Cardinality(enabled(dfr))
            /\ \A i \in DOMAIN dfr.sent : dfr.sent[i].Conn = ""

\* Both transports were dialed, the first result was a failure and the
\* second is the connection returned.
C19_Witness ==
  /\ dfr.pc = "returned"
  /\ Len(dfr.sent) = 2 /\ dfr.sent[1].Conn = "" /\ dfr.sent[2].Conn # ""
  /\ dfr.conn = dfr.sent[2].Conn

\* Every result of the call was received, once and in the order of delivery,
\* and the only connection still open is the one returned.
Settled ==
  /\ dfr.pc = "returned"
  /\ Len(dfr.sent) = Cardinality(enabled(dfr))
  /\ dfr.recvd = dfr.sent
  /\ \A tr \in Transports : nc[tr] = "open" => tr = dfr.conn

\* C20: once dialFirst has returned, every result of a dial it started is
\* received exactly once and every connection that was dialed, other than the
\* one returned, is closed in the end; no doDial is ever blocked in its send.
C20_LosersClosed ==
  /\ [](\A tr \in Transports : dial[tr] # "blocked")
  /\ [](/\ Len(dfr.recvd) <= Len(dfr.sent)
        /\ dfr.recvd = SubSeq(dfr.sent, 1, Len(dfr.recvd)))
  /\ (dfr.pc = "returned") ~> Settled

\* Both dials succeeded: one connection was returned and the other was
\* closed by the goroutine of the remaining results.
C20_Witness ==
  /\ Settled
  /\ dfr.drain = "done"
  /\ \E tr \in Transports : nc[tr] = "closed" /\ dfr.conn # "" /\ dfr.conn # tr

\* C21: no address is both half-open and the remote address of a connection
\* of the torrent.
C21_NoOverlap ==
  \A c \in conns : remoteAddr(c) \notin halfOpen

\* C22: adding a torrent spec a second time changes nothing: the second
\* AddTorrentSpec finds the torrent of the first (new = false), and leaves
\* the map, the trackers and the info as the first left them.
C22_AddTwice ==
  \A spec \in Specs :
    LET first == AddTorrentSpec(torrents, spec)
        second == AddTorrentSpec(first.ts, spec)
    IN /\ second.ts = first.ts
       /\ ~second.new
       /\ second.err = first.err
       /\ first.ts[spec.InfoHash].present
       /\ spec.Trackers \subseteq first.ts[spec.InfoHash].trackers \/ first.err # ""

\* Both callers have added the same spec with info and a tracker: the first
\* made the torrent, the second found it.
C22_Witness ==
  /\ call["u1"].pc = "done" /\ call["u2"].pc = "done"
  /\ call["u1"].spec = call["u2"].spec
  /\ call["u1"].spec.Info = "i1"
  /\ call["u1"].new /\ ~call["u2"].new
  /\ torrents["h1"].info = "i1" /\ "t2" \in torrents["h1"].trackers

\* Every torrent of the client has its info and all of its pieces.
EveryTorrentComplete(ts) ==
  \A ih \in Hashes : ts[ih].present =>
    (ts[ih].info # "" /\ ts[ih].completed = NumPieces)

\* C23: WaitAll returns true only in a state where every torrent has its
\* info and all its pieces, and false only when the client is closed and
\* some torrent is not complete.
C23_WaitAll ==
  [][\A u \in Callers :
       (call[u].pc = "WaitAll" /\ call'[u].pc = "done") =>
         /\ call'[u].ret => EveryTorrentComplete(torrents')
         /\ ~call'[u].ret => (clClosed' /\ ~EveryTorrentComplete(torrents'))]_vars

\* WaitAll returned true for a client whose torrent is complete.
C23_Witness ==
  /\ call["u1"].op = "WaitAll" /\ call["u1"].pc = "done" /\ call["u1"].ret
  /\ torrents["h1"].present /\ torrents["h1"].completed = NumPieces
  /\ ~clClosed

\* C25: nobody reads or ranges over cl.torrents without the lock while
\* another caller holds it.
C25_NoUnlockedAccess ==
  \A u \in Callers : (call[u].pc \in Unlocked /\ mu # u) => mu = ""

\* The buffers the handshake has posted that the writer has not dropped.
Advertised == wrote \o postCh.buf

\* C24: whatever a handshake sends as a peer-id, as initiator or as
\* receiver, is the peer-id PeerID() returns.
C24_PeerIDAdvertised ==
  /\ \A i \in DOMAIN Advertised :
       Advertised[i] \in PeerIDs => Advertised[i] = PeerID
  /\ (hsk.posted = 4 /\ postCh.buf # << >>) =>
       postCh.buf[Len(postCh.buf)] = PeerID

\* A receiver was sent the peer-id of another client and has written its
\* own as the fourth buffer.
C24_Witness ==
  /\ hsk.ih = "" /\ hsk.b.peerID = "p1"
  /\ Len(wrote) = 4 /\ wrote[4] = PeerID

\* C26: at most one verifier of a piece is between setting and clearing
\* Hashing, and Hashing is set exactly while one is there.
InHashing(p) == verifier[p].reading + verifier[p].sumOK + verifier[p].sumBad

OneVerifier == \A p \in Pieces : InHashing(p) = IF piece[p].Hashing THEN 1 ELSE 0

\* C26: a verifier that waits on the event because the piece is being
\* hashed is woken with Hashing cleared.
WaiterWoken ==
  \A p \in Verified :
    (verifier[p].parked > 0) ~> (verifier[p].parked = 0 /\ ~piece[p].Hashing)

\* C26: per piece at most one verifier is in the hashing section, and a
\* second verifier waiting on the event is eventually woken by the first
\* one's broadcast, after Hashing is cleared.
C26_OneVerifier == []OneVerifier /\ WaiterWoken

C26_Witness ==
  \E p \in Pieces :
    /\ piece[p].Hashing
    /\ InHashing(p) = 1
    /\ verifier[p].parked = 1

\* The connections that begin a storage write in this step.
Arrived == {c \in Slots : conn[c].phase = "loop" /\ conn'[c].phase = "write"}

\* C27: when a wanted chunk arrives, no connection of the torrent still
\* has the request for it outstanding at the moment the lock is released
\* for the storage write.
C27_AllCancelled ==
  [][\A c \in Arrived : \A d \in conns' : conn'[c].wr[1] \notin conn'[d].Requests]_vars

\* A chunk is being written for one connection while another one, which
\* requests every wanted chunk, no longer requests this one.
C27_Witness ==
  \E c \in conns, d \in conns :
    /\ c # d
    /\ conn[c].phase = "write"
    /\ ~conn[d].PeerChoked /\ conn[d].peerHasAll /\ conn[d].Requests # {}
    /\ conn[c].wr[1] \notin conn[d].Requests

\* C28: a failed storage write of a received chunk takes one from the
\* piece's pending writes, makes the chunk pending again, queues no check
\* of the piece, does not record the sender as a toucher of the piece and
\* leaves the connection open.
C28_WriteFailure ==
  [][\A c \in Slots :
       WriteChunk(c, FALSE) =>
         LET r == conn[c].wr[1]
             p == r[1]
         IN /\ piece'[p].pendingWrites = piece[p].pendingWrites - 1
            /\ r[2] \notin piece'[p].dirty
            /\ verifier' = verifier
            /\ piece'[p].QueuedForHash = piece[p].QueuedForHash
            /\ conn'[c].peerTouchedPieces = conn[c].peerTouchedPieces
            /\ conns' = conns
            /\ conn'[c].closed = conn[c].closed
            /\ conn'[c].phase = "loop"]_vars

\* A useful chunk was received and its write is over, yet storage holds
\* nothing, no chunk is dirty and the sender has touched no piece.
C28_Witness ==
  \E c \in conns :
    /\ conn[c].phase = "loop" /\ ~conn[c].closed
    /\ conn[c].UsefulChunksReceived > 0
    /\ conn[c].peerTouchedPieces = {}
    /\ \A p \in Pieces :
         /\ piece[p].dirty = {}
         /\ piece[p].pendingWrites = 0
         /\ \A k \in DOMAIN content[p] : content[p][k] = "none"

\* The step handles a Request of connection c whose upload pass reads the
\* chunk of r and fails.
ReadFails(c, r) ==
  /\ \E ord \in Orders(peers) : MsgRequest(c, r, ord)
  /\ ~conn[c].Choked /\ conn[c].PeerInterested /\ havePiece(St, r[1])
  /\ conn[c].PeerRequests = {}
  /\ \/ seeding(St)
     \/ /\ connHasWantedPieces(St, conn[c])
        /\ conn[c].chunksSent < conn[c].UsefulChunksReceived + uploadWindow
  /\ ~readOk(St, r)

Dropped(c) == c \notin conns' \/ conn'[c].closed

\* C29: a failed read during the upload pass only chokes the peer when
\* the piece is no longer complete and the error is unexpected EOF; after
\* any other failed read the connection is dropped; the failed request is
\* never counted as sent.
C29_ReadFailure ==
  [][\A c \in Slots, r \in AllRequests :
       ReadFails(c, r) =>
         /\ conn'[c].chunksSent = conn[c].chunksSent
         /\ IF ~pieceComplete(St, r[1]) /\ readAt(St, r) = "unexpected EOF"
            THEN ~Dropped(c) /\ conn'[c].Choked
            ELSE Dropped(c)]_vars

\* The transport whose dial won the race.
Winner == IF est.utp THEN "utp" ELSE "tcp"

\* C30: the first handshake of an outgoing attempt is encrypted unless
\* encryption is disabled; after an MSE failure other than a secret-key
\* mismatch the attempt dials once more on the transport that won and
\* handshakes without encryption, at most once; there is no second dial when
\* encryption is disabled or the secret key did not match.
C30_RetryUnencrypted ==
  (est.pc = "returned" /\ est.tried # << >>) =>
    /\ est.tried[1].encrypted = ~est.disable
    /\ est.tried[1].mse \notin {"", "ok", "skey mismatch"} =>
         /\ est.redialed = Winner
         /\ Len(est.tried) = 2 =>
              ~est.tried[2].encrypted /\ est.tried[2].utp = est.utp
    /\ Len(est.tried) <= 2
    /\ est.disable => est.redialed = "" /\ Len(est.tried) = 1
    /\ est.tried[1].mse = "skey mismatch" => est.redialed = ""

\* The quotient a / b rounded up.
Ceil(a, b) == (a + b - 1) \div b

\* C31: reducedDialTimeout returns the larger of minDialTimeout and max
\* divided by the ceiling of (pendingPeers + halfOpenLimit) / halfOpenLimit.
C31_CeilingScaled ==
  rdt.called =>
    LET q == rdt.max \div Ceil(rdt.pendingPeers + rdt.halfOpenLimit,
                               rdt.halfOpenLimit)
    IN rdt.ret = IF q < minDialTimeout THEN minDialTimeout ELSE q

\* The connection loop of c returns in this step.
LoopReturns(c) == conn[c].phase = "loop" /\ conn'[c].phase = "free"

\* C32: when the loop of a connection returns, with an error or without,
\* the connection is no longer in t.conns, the torrents map is what it
\* was, and every other connection is unchanged and where it was.
C32_OnlyThatConnection ==
  [][\A c \in Slots :
       LoopReturns(c) =>
         /\ c \notin conns'
         /\ torrents' = torrents
         /\ \A d \in Slots \ {c} :
              conn'[d] = conn[d] /\ (d \in conns' <=> d \in conns)]_vars

\* Two connections are running and a Request one of them can send now
\* fails it.
C32_Witness ==
  \E c \in conns, d \in conns, r \in AllRequests :
    /\ c # d
    /\ Running(c) /\ Running(d)
    /\ ~conn[c].Choked /\ conn[c].PeerInterested /\ ~havePiece(St, r[1])
    /\ \A ord \in Orders(peers) : msgRequest(St, c, r, ord).conn[c].phase = "free"

\* An accepted connection from a bad address is closed at once, and
\* initiateConn for a peer with a bad address or the client's own peer-id
\* starts nothing.
BadAddress(a) ==
  \/ a.port = 0
  \/ a \in dopplegangerAddrs
  \/ a.ip \in ipBlockList
  \/ a.ip \in badPeerIPs

BadNeverStarts ==
  /\ \A a \in Addrs \cup BadAddrs :
       BadAddress(a) => acceptConnections(St, a) = St
  /\ \A p \in Candidates :
       BadAddress(PeerAddr(p)) \/ PeerId(p) = OwnPeerID =>
         initiateConn(St, p) = St

\* A handshake begins in this step, inbound or outbound, with address a.
HandshakeBegins(a) ==
  \/ incoming'[a] > incoming[a]
  \/ dialing'[a] > dialing[a]
  \/ a \in halfOpen' \ halfOpen

\* C33: no connection with a bad address reaches the handshake: an inbound
\* one is closed at once, and no dial is started, nor the address made
\* half-open, for a peer with a bad address or the client's own peer-id.
C33_BadAddressNoHandshake ==
  /\ []BadNeverStarts
  /\ [][\A a \in Addrs : HandshakeBegins(a) => ~BadAddress(a)]_vars
  /\ [](halfOpen \subseteq Addrs)

\* The client accepts and dials, and an address is banned and another one
\* is known to be the client itself.
C33_Witness ==
  /\ Quiet /\ wantConns(St) /\ Cardinality(halfOpen) < halfOpenLimit
  /\ badPeerIPs # {}
  /\ dopplegangerAddrs # {}

\* The offset in the payload at which the piece's bytes begin.
Begin(msg) == msg.len - metadataPieceSize(msg.totalSize, msg.piece)

\* C34: a ut_metadata data message counts as a useful chunk and is saved
\* only if its piece was requested on the connection and its offset lies
\* in the payload; otherwise the connection fails and the metadata buffer
\* and the useful-chunk counter are what they were.
C34_MetadataData ==
  [][\A msg \in {m \in MetadataMsgs : m.msgType = "data"} :
       GotMetadataExtensionMsg(msg) =>
         IF /\ msg.piece \in md.metadataRequests
            /\ 0 <= Begin(msg) /\ Begin(msg) < msg.len
         THEN /\ md'.err = ""
              /\ md'.UsefulChunksReceived = md.UsefulChunksReceived + 1
         ELSE /\ md'.err # ""
              /\ md'.metadataBytes = md.metadataBytes
              /\ md'.haveInfo = md.haveInfo
              /\ md'.UsefulChunksReceived = md.UsefulChunksReceived]_vars

\* A connection that delivered a piece has failed on a bad offset.
C34_Witness ==
  /\ md.err = "data has bad offset in payload"
  /\ md.UsefulChunksReceived > 0
  /\ \E i \in MetadataPieces : md.metadataBytes[i] # "none"

\* Every address has an outgoing attempt in flight exactly while it is in
\* t.halfOpen, and never more than one.
OneAttempt == \A a \in Addrs : dialing[a] = IF a \in halfOpen THEN 1 ELSE 0

\* C36: the test of noLongerHalfOpen never fails: an address is half-open
\* exactly while its one outgoing attempt runs, so the attempt that ends
\* finds it there.
C36_AssertionHolds == panicked # "noLongerHalfOpen" /\ OneAttempt

\* An attempt for the address is in flight while the connection of an
\* earlier attempt for it, which ended, is still open.
C36_Witness ==
  \E a \in halfOpen :
    /\ dialing[a] = 1
    /\ << a, "out" >> \in conns

\* From the pre-state to the post-state no connection is added to t.conns.
NoneAdded == conns' \subseteq conns

\* No message is dispatched: a connection object is as it was, or gone.
NoneDispatched == \A c \in Slots : conn'[c] \in {conn[c], FreeConn}

\* No accepted connection is handed to incomingConnection.
NoneHandedOff == \A a \in DOMAIN incoming : incoming'[a] <= incoming[a]

\* C37: once cl.closed is set no connection is added to t.conns, no message
\* is dispatched and the accept loop starts no incomingConnection.
C37_NothingAfterClose ==
  [][clClosed => NoneAdded /\ NoneDispatched /\ NoneHandedOff]_vars

NoneAddedNoneDispatched == [][clClosed => NoneAdded /\ NoneDispatched]_vars

\* The caller is inside WaitAll or waitAccept.
Waiter(u) ==
  /\ call[u].op \in {"WaitAll", "waitAccept"}
  /\ call[u].pc \notin {"idle", "done"}

\* C38: under fair scheduling every task inside WaitAll or waitAccept
\* returns once the client is closed.
C38_WaitersReturn ==
  \A u \in Callers : (Waiter(u) /\ clClosed) ~> (call[u].pc = "done")

\* Close has woken a caller of WaitAll and the accept loop, which both sat
\* in event.Wait, and they go for the lock.
C38_Witness ==
  /\ clClosed
  /\ call["u1"].pc = "lock:WaitAll"
  /\ call["u3"].pc = "lock:waitAccept"

\* establishOutgoingConn returns a connection and a nil error.
Established == est.pc = "returned" /\ est.c # << >> /\ est.err = ""

\* C39: when establishOutgoingConn returns, every net.Conn it obtained is
\* closed, but for the one under the connection it returns with a nil error,
\* which is open.
C39_NoSocketLeaked ==
  est.pc = "returned" =>
    /\ \A i \in 1..Len(est.ncs) :
         est.ncs[i] = "open" <=> (Established /\ i = Len(est.ncs))
    /\ Established => est.ncs # << >>

\* The encrypted handshake gave no connection, its net.Conn was closed, and
\* the connection returned is the one over the second net.Conn.
C39_Witness == Established /\ est.ncs = << "closed", "open" >>

====
